---- MODULE Spec2Model ----
(***************************************************************************)
(* Persistence and synchronisation engine of prompt-admin.                 *)
(*                                                                         *)
(* Two builds of the application live in the repository:                   *)
(*   "cloud"  : src/App.tsx + the draft-caching PromptEditor               *)
(*              (src/components/Icon.tsx:45-) + src/services/supabase.ts   *)
(*   "legacy" : src/unnamed/part_000 + src/components/PromptEditor.tsx     *)
(*              + src/services/storageService.ts (savePrompt/deletePrompt) *)
(* The variable build says which one runs; it never changes.               *)
(*                                                                         *)
(* A PromptData object is a function from field names to values, so that   *)
(* an absent key, a key holding undefined and object spread are all        *)
(* modelled as the code has them.  Of the free-text fields, title and      *)
(* template stand for all of them (description, systemInstruction, tags    *)
(* and config are copied around by exactly the same statements).           *)
(***************************************************************************)
EXTENDS Integers, Sequences, FiniteSets, TLC

(* ---------------------------- bounds ----------------------------------- *)
MaxSteps == 4          \* user gestures per run without a remote
CloudSteps == 2        \* user gestures per run with a remote
DeepSteps == 23        \* user gestures per run of the history specification
MaxTicks == 2          \* how often the clock advances
MaxCreated == 1        \* records created per run of the history specification
BootTime == 1000       \* Date.now() when the module is loaded
DraftSteps == 4        \* user gestures per run of the draft specification
DraftTicks == 4        \* how often the clock advances in the draft specification
ImportSteps == 2       \* user gestures per run of the import specification
ModeSteps == 2         \* user gestures per run of the specification of both modes
RoundTripSteps == 6    \* user gestures per run of the round-trip specification
IdSteps == 2           \* user gestures per run of the specification of the ids
LoadSteps == 2         \* page reloads per run of the load specification
ToggleSteps == 22      \* user gestures per run of the specification of the toggles
SyncSteps == 2         \* user gestures per run of the specification of the uploads in order

(* ------------------------ program constants ---------------------------- *)
AppHistoryCap == 20
StoreHistoryCap == 10
DebounceMs == 1000
DefaultTitle == "untitled"          \* the literal of App.tsx:81
Undefined == -1                     \* the JavaScript value undefined
Null == [null |-> TRUE]             \* the JavaScript value null

\* the clock advances by half the debounce delay
TickStep == DebounceMs \div 2

(* ------------------------ object helpers ------------------------------- *)
\* { ...r, ...upd }
Spread(r, upd) ==
  [f \in (DOMAIN r) \cup (DOMAIN upd) |-> IF f \in DOMAIN upd THEN upd[f] ELSE r[f]]

\* const { k: _ignored, ...rest } = r
Omit(r, k) == [f \in (DOMAIN r) \ {k} |-> r[f]]

Has(r, k) == k \in DOMAIN r

\* String.prototype.trim on the titles of the model
Trim(t) == IF t \in {"", " "} THEN "" ELSE t

\* Array.prototype.slice(0, n)
Slice(s, n) == SubSeq(s, 1, IF Len(s) < n THEN Len(s) ELSE n)

\* Array.prototype.findIndex, 1-based; 0 when nothing matches
FindIndex(s, id) ==
  IF \E i \in 1..Len(s) : s[i].id = id
  THEN CHOOSE i \in 1..Len(s) : s[i].id = id /\ \A j \in 1..(i-1) : s[j].id # id
  ELSE 0

\* Array.prototype.filter(p => p.id !== id)
RECURSIVE FilterOut(_, _)
FilterOut(s, id) ==
  IF s = <<>> THEN <<>>
  ELSE IF Head(s).id = id THEN FilterOut(Tail(s), id)
       ELSE <<Head(s)>> \o FilterOut(Tail(s), id)

\* p.isFavorite as a condition: an absent field reads as undefined
IsFavorite(p) == Has(p, "isFavorite") /\ p["isFavorite"]

\* JSON.parse(JSON.stringify(obj)) of one object: keys holding undefined vanish
\* (only the optional numeric fields ever hold undefined)
HoldsUndefined(r, k) == k \in {"lastUsedAt", "order"} /\ r[k] = Undefined

JsonObject(r) == [f \in {k \in DOMAIN r : ~HoldsUndefined(r, k)} |-> r[f]]

\* JSON.parse(JSON.stringify(r)) of a PromptData, history entries included
JsonPrompt(r) ==
  LET o == JsonObject(r)
  IN IF Has(o, "history")
     THEN [o EXCEPT !["history"] = [i \in 1..Len(o["history"]) |-> JsonObject(o["history"][i])]]
     ELSE o

\* JSON.parse(JSON.stringify(prompts))
Json(s) == [i \in 1..Len(s) |-> JsonPrompt(s[i])]

(* ------------------------------ state ---------------------------------- *)
VARIABLES
  build,           \* "cloud" or "legacy"
  loadedAt,        \* Date.now() when constants.ts was evaluated
  isCloudEnabled,  \* supabase.ts:22
  phase,           \* "boot" before the App component mounts, "run" after
  now,             \* Date.now()
  nextId,          \* the next value generateId returns
  localBlob,       \* localStorage[STORAGE_KEY]
  prompts,         \* App state prompts
  selectedPrompt,  \* App state selectedPrompt
  view,            \* App state view
  isSyncing,       \* App state isSyncing
  editor,          \* the mounted PromptEditor instance
  drafts,          \* the draft cache, id -> draft
  remote,          \* the row global_backup of app_storage
  download,        \* the startup download
  uploads,         \* upsert requests in flight, in the order they were started
  importing,       \* the handleImport call that is suspended at an await, or Null
  notice,          \* the last alert() shown, or Null
  exported,        \* the last file handleExport wrote, or Null
  steps,           \* user gestures left
  lastOp,          \* history variable: the last step taken
  ghost,           \* history variable: what has happened to each id
  syncLog          \* history variable: the uploads started and how each ended

vars == <<build, loadedAt, isCloudEnabled, phase, now, nextId, localBlob, prompts,
          selectedPrompt, view, isSyncing, editor, drafts, remote, download,
          uploads, importing, notice, exported, steps, lastOp, ghost, syncLog>>

(* --------------------------- fixed data -------------------------------- *)
\* one entry of INITIAL_PROMPTS; the module is loaded at time t
SeedPrompt(i, fav, t) ==
  [id |-> i, title |-> "seed", template |-> "x", updatedAt |-> t, createdAt |-> t,
   history |-> <<>>, isFavorite |-> fav]

INITIAL_PROMPTS(t) == <<SeedPrompt(1, TRUE, t), SeedPrompt(2, FALSE, t), SeedPrompt(3, FALSE, t)>>

\* what an earlier session left in the local store: two favourites, the
\* first of them saved twice
PriorCollection ==
  << [id |-> 1, title |-> "old", template |-> "x", updatedAt |-> 500, createdAt |-> 100,
      isFavorite |-> TRUE,
      history |-> << [id |-> 1, title |-> "older", template |-> "x", updatedAt |-> 100,
                      createdAt |-> 100, isFavorite |-> FALSE] >>],
     [id |-> 2, title |-> "two", template |-> "x", updatedAt |-> 500, createdAt |-> 500,
      isFavorite |-> TRUE, history |-> <<>>] >>

\* the drafts that session left: one as old as its record, one newer
PriorDrafts ==
  [i \in {1, 2} |->
     IF i = 1
     THEN [id |-> 1, title |-> "d1", template |-> "x", updatedAt |-> 500, createdAt |-> 100,
           isFavorite |-> TRUE, history |-> <<>>]
     ELSE [id |-> 2, title |-> "d2", template |-> "x", updatedAt |-> 600, createdAt |-> 500,
           isFavorite |-> TRUE, history |-> <<>>]]

\* what another session left in the remote row
RemoteCollection ==
  << [id |-> 1, title |-> "far", template |-> "x", updatedAt |-> 1000, createdAt |-> 100,
      isFavorite |-> TRUE,
      history |-> << [id |-> 1, title |-> "old", template |-> "x", updatedAt |-> 500,
                      createdAt |-> 100, isFavorite |-> TRUE],
                     [id |-> 1, title |-> "older", template |-> "x", updatedAt |-> 100,
                      createdAt |-> 100, isFavorite |-> FALSE] >>],
     [id |-> 9, title |-> "far9", template |-> "y", updatedAt |-> 100, createdAt |-> 100,
      isFavorite |-> FALSE, history |-> <<>>] >>

\* the ids in use before the run starts
KnownIds == {1, 2, 3} \cup {9} \cup {16, 17, 18}

\* localStorage[STORAGE_KEY]: no value, a value JSON.parse rejects, or a parsed value
BlobAbsent == [kind |-> "absent"]
BlobOf(s) == [kind |-> "json", data |-> Json(s)]

\* a value JSON.parse rejects; a value that is not an array (parsed.map is
\* not a function); an array with a null in it (p.createdAt throws)
BlobGarbage == [kind |-> "garbage"]
BlobObject == [kind |-> "object"]
BlobNullEntry == [kind |-> "nullEntry"]

\* a collection written by a version that knew no createdAt, history or
\* isFavorite: the first entry has an updatedAt to take createdAt from, the
\* second has not, the third is complete
StoredBeforeMigration ==
  << [id |-> 1, title |-> "m1", template |-> "x", updatedAt |-> 300],
     [id |-> 2, title |-> "m2", template |-> "x", updatedAt |-> 0, createdAt |-> 0,
      history |-> <<>>],
     [id |-> 3, title |-> "m3", template |-> "x", updatedAt |-> 400, createdAt |-> 200,
      history |-> <<>>, isFavorite |-> TRUE] >>

\* an array of objects that are no records
StrayObjects == << [title |-> "stray"] >>

InitialBlobs == {BlobOf(PriorCollection)}

\* one record that was never saved over, stored with a title or, by an
\* import, with an empty one
FreshRecord(title) ==
  [id |-> 1, title |-> title, template |-> "x", updatedAt |-> 500, createdAt |-> 500,
   history |-> <<>>, isFavorite |-> FALSE]
ToggleBlobs == {BlobOf(<<FreshRecord("t")>>), BlobOf(<<FreshRecord("")>>)}
LoadBlobs ==
  {BlobAbsent, BlobGarbage, BlobObject, BlobNullEntry, BlobOf(<<>>), BlobOf(PriorCollection),
   BlobOf(StoredBeforeMigration), BlobOf(StrayObjects)}
InitialRemotes == {Null, [data |-> <<>>], [data |-> RemoteCollection]}

(* ------------------------- storageService.ts --------------------------- *)
\* (mutant) createdAt is stamped at every load
MigrateStampsEveryLoad(p, t) ==
  LET p1 == Spread(p, [createdAt |-> t])
      p2 == IF ~Has(p1, "history") THEN Spread(p1, [history |-> <<>>]) ELSE p1
  IN IF ~Has(p2, "isFavorite") THEN Spread(p2, [isFavorite |-> FALSE]) ELSE p2

\* the body of parsed.map in getStoredPrompts
Migrate(p, t) ==
  LET p1 == IF ~Has(p, "createdAt") \/ p["createdAt"] = 0
            THEN Spread(p, [createdAt |-> IF Has(p, "updatedAt") /\ p["updatedAt"] # 0
                                          THEN p["updatedAt"] ELSE t])
            ELSE p
      p2 == IF ~Has(p1, "history") THEN Spread(p1, [history |-> <<>>]) ELSE p1
      p3 == IF ~Has(p2, "isFavorite") THEN Spread(p2, [isFavorite |-> FALSE]) ELSE p2
  IN p3

Migrated(data, t) == [i \in 1..Len(data) |-> Migrate(data[i], t)]

\* the flag needsUpdate of getStoredPrompts
NeedsUpdate(data) ==
  \E i \in 1..Len(data) :
     \/ ~Has(data[i], "createdAt") \/ data[i]["createdAt"] = 0
     \/ ~Has(data[i], "history")
     \/ ~Has(data[i], "isFavorite")

\* what getStoredPrompts returns
getStoredPrompts(blob, t) ==
  IF blob.kind = "absent" THEN INITIAL_PROMPTS(loadedAt)
  ELSE IF blob.kind = "json" THEN Migrated(blob.data, t)
  ELSE INITIAL_PROMPTS(loadedAt)

\* what getStoredPrompts leaves in localStorage
getStoredPromptsBlob(blob, t) ==
  IF blob.kind = "absent" THEN BlobOf(INITIAL_PROMPTS(loadedAt))
  ELSE IF blob.kind = "json" /\ NeedsUpdate(blob.data)
       THEN BlobOf(Migrated(blob.data, t))
  ELSE blob

\* saveAllPrompts
saveAllPrompts(s) == BlobOf(s)

\* (mutant) the snapshot is prepended but the history is never truncated
WithSnapshotUncapped(existing, cap) ==
  <<Omit(existing, "history")>>
    \o (IF Has(existing, "history") THEN existing["history"] ELSE <<>>)

\* (mutant) the stored record is prepended with its own history left in it
WithSnapshotNested(existing, cap) ==
  Slice(<<existing>>
          \o (IF Has(existing, "history") THEN existing["history"] ELSE <<>>), cap)

\* the history savePrompt and handleSavePrompt build: snapshot first, capped
WithSnapshot(existing, cap) ==
  Slice(<<Omit(existing, "history")>>
          \o (IF Has(existing, "history") THEN existing["history"] ELSE <<>>), cap)

\* what savePrompt leaves in localStorage, given the collection it loaded
savePromptResult(loaded, prompt, t) ==
  LET index == FindIndex(loaded, prompt["id"])
  IN IF index > 0
     THEN [loaded EXCEPT ![index] =
             Spread(prompt, [history |-> WithSnapshot(loaded[index], StoreHistoryCap),
                             updatedAt |-> t])]
     ELSE <<prompt>> \o loaded

\* what deletePrompt leaves in localStorage, given the collection it loaded
deletePromptResult(loaded, id) == FilterOut(loaded, id)

(* --------------------- the draft cache (storageService) ---------------- *)
\* getDraft(id)
getDraft(dr, id) == IF id \in DOMAIN dr THEN dr[id] ELSE Null

\* saveDraft(prompt): the in-progress record under its id, stamped with the write time
saveDraft(dr, prompt, t) ==
  [i \in (DOMAIN dr) \cup {prompt["id"]} |->
     IF i = prompt["id"] THEN Spread(prompt, [updatedAt |-> t]) ELSE dr[i]]

\* removeDraft(id)
removeDraft(dr, id) == [i \in (DOMAIN dr) \ {id} |-> dr[i]]

(* ---------------------------- PromptEditor ----------------------------- *)
Unmounted == [mounted |-> FALSE]

\* (mutant) a draft as old as the record wins too
DraftWinsOnTie(draft, initialData) ==
  draft # Null /\ draft["updatedAt"] >= initialData["updatedAt"]

\* the condition of Icon.tsx:74 and :85
DraftWins(draft, initialData) ==
  draft # Null /\ draft["updatedAt"] > initialData["updatedAt"]

\* Icon.tsx:74
startData(draft, initialData) == IF DraftWins(draft, initialData) THEN draft ELSE initialData

\* Icon.tsx:84-86
startStatus(draft, initialData) ==
  IF DraftWins(draft, initialData) THEN "DRAFT_SAVED" ELSE "SAVED"

\* the record of collection ps under id, or Null
Lookup(ps, id) == IF FindIndex(ps, id) > 0 THEN ps[FindIndex(ps, id)] ELSE Null

\* the first render of the draft-caching editor (Icon.tsx:69-91), the
\* collection being ps.  prompt, saveStatus and timer are the component's
\* state; the other fields are history variables: what it was mounted with
\* and what its edits and draft writes have been since.
MountDraftEditor(initialData, dr, ps) ==
  [mounted |-> TRUE,
   prompt |-> startData(getDraft(dr, initialData["id"]), initialData),
   saveStatus |-> startStatus(getDraft(dr, initialData["id"]), initialData),
   timer |-> Null,
   initialData |-> initialData,
   mountedWith |-> [initialData |-> initialData,
                    draft |-> getDraft(dr, initialData["id"]),
                    canonical |-> Lookup(ps, initialData["id"]),
                    prompt |-> startData(getDraft(dr, initialData["id"]), initialData),
                    saveStatus |-> startStatus(getDraft(dr, initialData["id"]), initialData)],
   lastEdit |-> 0,
   runs |-> 0,
   runStart |-> 0,
   writes |-> 0,
   earlier |-> 1]

\* the first render of the legacy editor (PromptEditor.tsx:22)
MountPlainEditor(initialData) ==
  [mounted |-> TRUE, prompt |-> initialData, saveStatus |-> "SAVED", timer |-> Null,
   initialData |-> initialData,
   mountedWith |-> [initialData |-> initialData, draft |-> Null, canonical |-> Null,
                    prompt |-> initialData, saveStatus |-> "SAVED"],
   lastEdit |-> 0, runs |-> 0, runStart |-> 0, writes |-> 0, earlier |-> 1]

\* (mutant) the draft is written without waiting
AutoSaveTimerEager(prompt, t) == [deadline |-> t, prompt |-> prompt]

\* the timer the auto-save effect sets at time t (Icon.tsx:119-122): its
\* callback closes over the prompt of that render
AutoSaveTimer(prompt, t) == [deadline |-> t + DebounceMs, prompt |-> prompt]

\* the key of App.tsx:350
EditorKey(p) == <<p["id"], p["updatedAt"]>>

\* React's reconciliation of <PromptEditor> after a handler of App.tsx has run:
\* same key keeps the instance (and its state and timer), a new key unmounts
\* it (the effect cleanup of Icon.tsx:124-128 clears the timer) and mounts a
\* fresh one; the conditional render of App.tsx:348 unmounts it.
RenderCloud(ed, oldSel, newSel, newView, dr, ps) ==
  IF newView # "EDITOR" \/ newSel = Null THEN Unmounted
  ELSE IF ed.mounted /\ oldSel # Null /\ EditorKey(oldSel) = EditorKey(newSel)
       THEN [ed EXCEPT !.initialData = newSel]
  ELSE MountDraftEditor(newSel, dr, ps)

\* the same for part_000:210-218 and the effect of PromptEditor.tsx:33-36:
\* no key; a new initialData object resets the editor's prompt
RenderLegacy(ed, newSel, newView, selChanged) ==
  IF newView # "EDITOR" \/ newSel = Null THEN Unmounted
  ELSE IF ed.mounted /\ ~selChanged THEN ed
  ELSE MountPlainEditor(newSel)

(* ----------------------- PromptList / favourites view ------------------ *)
\* Number.MAX_SAFE_INTEGER; any value above every order the model assigns behaves alike
MAX_SAFE_INTEGER == 2147483647

\* a.order ?? Number.MAX_SAFE_INTEGER
OrderKey(p) ==
  IF Has(p, "order") /\ ~HoldsUndefined(p, "order") THEN p["order"] ELSE MAX_SAFE_INTEGER

\* the comparator of App.tsx:276-284 says a sorts strictly before b
FavBefore(a, b) ==
  \/ OrderKey(a) < OrderKey(b)
  \/ OrderKey(a) = OrderKey(b) /\ a["updatedAt"] > b["updatedAt"]

\* Array.prototype.filter(p => p.isFavorite)
RECURSIVE Favorites(_)
Favorites(s) ==
  IF s = <<>> THEN <<>>
  ELSE IF IsFavorite(Head(s)) THEN <<Head(s)>> \o Favorites(Tail(s))
       ELSE Favorites(Tail(s))

\* stable insertion of x into a sorted list
RECURSIVE InsertSorted(_, _)
InsertSorted(x, s) ==
  IF s = <<>> THEN <<x>>
  ELSE IF FavBefore(x, Head(s)) THEN <<x>> \o s
       ELSE <<Head(s)>> \o InsertSorted(x, Tail(s))

\* Array.prototype.sort with that comparator (stable)
RECURSIVE SortFavorites(_)
SortFavorites(s) ==
  IF s = <<>> THEN <<>>
  ELSE InsertSorted(s[Len(s)], SortFavorites(SubSeq(s, 1, Len(s) - 1)))

\* filteredPrompts of App.tsx:270-297 under the filter FAVORITES
FavoritesView(s) == SortFavorites(Favorites(s))

\* the two splices of handleDragEnd (PromptList.tsx:277-281), positions 1-based
RemoveAt(s, i) == SubSeq(s, 1, i - 1) \o SubSeq(s, i + 1, Len(s))
InsertAt(s, i, x) == SubSeq(s, 1, i - 1) \o <<x>> \o SubSeq(s, i, Len(s))
DragMove(s, from, to) == InsertAt(RemoveAt(s, from), to, s[from])

(* -------------------------------- App.tsx ------------------------------ *)
\* syncLog.started: the payloads of the uploads started, in that order;
\* syncLog.pending: for each upload in flight its number in started;
\* syncLog.settled: the uploads that have ended, in that order, with ok
\*                  telling whether the request reached the server;
\* syncLog.replaced: the startup download or an import has replaced the
\*                  collection since the last upload was started
SyncInit == [started |-> <<>>, pending |-> <<>>, settled |-> <<>>, replaced |-> FALSE]

SyncStarted(log, request) ==
  [log EXCEPT !.started = Append(log.started, request),
              !.pending = Append(log.pending, Len(log.started) + 1),
              !.replaced = FALSE]

SyncReplaced(log, taken) == [log EXCEPT !.replaced = @ \/ taken]

SyncSettled(log, i, ok) ==
  [log EXCEPT !.pending = [k \in 1..(Len(log.pending) - 1) |->
                             IF k < i THEN log.pending[k] ELSE log.pending[k + 1]],
              !.settled = Append(log.settled, [n |-> log.pending[i], ok |-> ok])]

\* App.tsx:80-82 and part_000:49-51
WithDefaultTitle(p) ==
  IF Trim(p["title"]) = "" THEN Spread(p, [title |-> DefaultTitle]) ELSE p

\* (mutant) the branch for an id that is not in the collection takes a snapshot too
handleSavePromptSnapshotsNew(ps, sel, updatedPrompt0, t) ==
  LET updatedPrompt == WithDefaultTitle(updatedPrompt0)
      index == FindIndex(ps, updatedPrompt["id"])
      promptToSave ==
        Spread(updatedPrompt,
               [history |-> WithSnapshot(IF index > 0 THEN ps[index] ELSE updatedPrompt,
                                         AppHistoryCap),
                updatedAt |-> t])
  IN IF index > 0
     THEN [prompts |-> [ps EXCEPT ![index] = promptToSave],
           selected |-> IF sel # Null /\ sel["id"] = updatedPrompt["id"]
                        THEN promptToSave ELSE sel]
     ELSE [prompts |-> <<promptToSave>> \o ps, selected |-> promptToSave]

\* (mutant) a save stamps the record it inserts like the one it replaces
handleSavePromptStampsNew(ps, sel, updatedPrompt0, t) ==
  LET updatedPrompt == WithDefaultTitle(updatedPrompt0)
      index == FindIndex(ps, updatedPrompt["id"])
      promptToSave ==
        Spread(updatedPrompt, [history |-> WithSnapshot(ps[index], AppHistoryCap),
                               updatedAt |-> t])
  IN IF index > 0
     THEN [prompts |-> [ps EXCEPT ![index] = promptToSave],
           selected |-> IF sel # Null /\ sel["id"] = updatedPrompt["id"]
                        THEN promptToSave ELSE sel]
     ELSE [prompts |-> <<Spread(updatedPrompt, [updatedAt |-> t])>> \o ps,
           selected |-> Spread(updatedPrompt, [updatedAt |-> t])]

\* handleSavePrompt up to the call of updatePromptsState (App.tsx:79-115):
\* the next collection and the next selectedPrompt
handleSavePrompt(ps, sel, updatedPrompt0, t) ==
  LET updatedPrompt == WithDefaultTitle(updatedPrompt0)
      index == FindIndex(ps, updatedPrompt["id"])
      promptToSave ==
        Spread(updatedPrompt, [history |-> WithSnapshot(ps[index], AppHistoryCap),
                               updatedAt |-> t])
  IN IF index > 0
     THEN [prompts |-> [ps EXCEPT ![index] = promptToSave],
           selected |-> IF sel # Null /\ sel["id"] = updatedPrompt["id"]
                        THEN promptToSave ELSE sel]
     ELSE [prompts |-> <<updatedPrompt>> \o ps, selected |-> updatedPrompt]

\* (mutant) the request carries the collection as it was before the mutation
UploadRequestStale(s) == [data |-> Json(prompts)]

\* the body of api.uploadData's request (supabase.ts:63-69)
UploadRequest(s) == [data |-> Json(s)]

\* (mutant) the upload is started whether or not a remote is configured
updatePromptsStateAlwaysUploads(newPrompts) ==
  /\ prompts' = newPrompts
  /\ localBlob' = saveAllPrompts(newPrompts)
  /\ uploads' = Append(uploads, UploadRequest(newPrompts))
  /\ syncLog' = SyncStarted(syncLog, UploadRequest(newPrompts))

\* (mutant) the collection is not written to localStorage
updatePromptsStateSkipsStore(newPrompts) ==
  /\ prompts' = newPrompts
  /\ localBlob' = localBlob
  /\ IF isCloudEnabled
     THEN /\ uploads' = Append(uploads, UploadRequest(newPrompts))
          /\ syncLog' = SyncStarted(syncLog, UploadRequest(newPrompts))
     ELSE UNCHANGED <<uploads, syncLog>>

\* updatePromptsState (App.tsx:41-52)
updatePromptsState(newPrompts) ==
  /\ prompts' = newPrompts
  /\ localBlob' = saveAllPrompts(newPrompts)
  /\ uploads' = IF isCloudEnabled THEN Append(uploads, UploadRequest(newPrompts)) ELSE uploads
  /\ syncLog' = IF isCloudEnabled THEN SyncStarted(syncLog, UploadRequest(newPrompts))
                ELSE syncLog

\* the object handleCreatePrompt builds (App.tsx:55-68)
NewPrompt(id, t) ==
  [id |-> id, title |-> "", template |-> "", updatedAt |-> t, createdAt |-> t,
   history |-> <<>>, isFavorite |-> FALSE]

\* (mutant) the copy keeps the history, the favourite flag and the order
DuplicateOfBranches(prompt, newId, t) ==
  Spread(prompt, [id |-> newId, title |-> "copy", updatedAt |-> t, createdAt |-> t,
                  lastUsedAt |-> Undefined])

\* the object handleDuplicatePrompt builds (App.tsx:124-136)
DuplicateOf(prompt, newId, t) ==
  Spread(prompt, [id |-> newId, title |-> "copy", updatedAt |-> t, createdAt |-> t,
                  history |-> <<>>, isFavorite |-> FALSE, lastUsedAt |-> Undefined,
                  order |-> Undefined])

\* orderMap of handleReorderPrompts (App.tsx:166-169), 1-based: Map.set keeps
\* the last index given for an id; 0 when the id is not in the subset
OrderMap(reorderedSubset, id) ==
  LET at == {i \in 1..Len(reorderedSubset) : reorderedSubset[i]["id"] = id}
  IN IF at = {} THEN 0 ELSE CHOOSE i \in at : \A j \in at : j <= i

\* (mutant) the orders handed out start at 1
ReorderedFromOne(ps, reorderedSubset) ==
  [i \in 1..Len(ps) |->
     IF OrderMap(reorderedSubset, ps[i]["id"]) > 0
     THEN Spread(ps[i], [order |-> OrderMap(reorderedSubset, ps[i]["id"])])
     ELSE ps[i]]

\* the map of handleReorderPrompts (App.tsx:172-177)
Reordered(ps, reorderedSubset) ==
  [i \in 1..Len(ps) |->
     IF OrderMap(reorderedSubset, ps[i]["id"]) > 0
     THEN Spread(ps[i], [order |-> OrderMap(reorderedSubset, ps[i]["id"]) - 1])
     ELSE ps[i]]

(* ------------------------------ actions -------------------------------- *)
\* lastOp: the step, the id it was about, whether that id was in the collection
\* before the step, the record stored under it before the step, and the
\* object the step was handed
OpOn(name, id, existed, before, carried) ==
  [op |-> name, id |-> id, existed |-> existed, before |-> before, carried |-> carried]

Op(name, id, existed) == OpOn(name, id, existed, Null, Null)

\* ghost.saves[id]: the saves of id since handleCreatePrompt made it, for as
\*                  long as nothing but saves has touched the record
\* ghost.retired:   the ids that were stored before this run or have been removed
\* ghost.clean:     the ids saved from the editor and not edited since
\* ghost.deleted:   the ids removed by a confirmed delete
GhostInit(ids) == [saves |-> <<>>, retired |-> ids, clean |-> {}, deleted |-> {}]

Ids(s) == {s[i]["id"] : i \in 1..Len(s)}

GhostSaved(g, id, existed, fromEditor) ==
  [g EXCEPT
     !.saves = IF id \in DOMAIN g.saves /\ existed
               THEN [g.saves EXCEPT ![id] = g.saves[id] + 1]
               ELSE IF ~existed /\ id \notin g.retired /\ id \notin DOMAIN g.saves
                    THEN [i \in (DOMAIN g.saves) \cup {id} |->
                            IF i = id THEN 1 ELSE g.saves[i]]
                    ELSE [i \in (DOMAIN g.saves) \ {id} |-> g.saves[i]],
     !.retired = IF id \in DOMAIN g.saves \/ (~existed /\ id \notin g.retired)
                 THEN g.retired ELSE g.retired \cup {id},
     !.clean = IF fromEditor THEN g.clean \cup {id} ELSE g.clean]

GhostRemoved(g, ids, byDelete) ==
  [g EXCEPT
     !.saves = [i \in (DOMAIN g.saves) \ ids |-> g.saves[i]],
     !.retired = g.retired \cup ids,
     !.deleted = IF byDelete THEN g.deleted \cup ids ELSE g.deleted]

GhostEdited(g, id) == [g EXCEPT !.clean = g.clean \ {id}]

\* a pending draft timer has run out: its callback is the next thing to run
TimerDue == editor.mounted /\ editor.timer # Null /\ now >= editor.timer.deadline

\* the user can make a gesture
Gesture == phase = "run" /\ steps > 0 /\ ~TimerDue

Cloud == build = "cloud"
Legacy == build = "legacy"

Static == UNCHANGED <<build, loadedAt, isCloudEnabled>>

\* no import is started or resumed, nothing is exported, no alert is shown
Quiet == UNCHANGED <<importing, notice, exported>>

\* time passes, for at most n ticks of the clock
TickWithin(n) ==
  /\ phase = "run" /\ ~TimerDue
  /\ now + TickStep <= BootTime + n * TickStep
  /\ now' = now + TickStep
  /\ lastOp' = Op("tick", 0, FALSE)
  /\ ghost' = ghost
  /\ Static /\ Quiet /\ UNCHANGED syncLog
  /\ UNCHANGED <<phase, nextId, localBlob, prompts, selectedPrompt, view, isSyncing,
                 editor, drafts, remote, download, uploads, steps>>

Tick == TickWithin(MaxTicks)

\* App.tsx:17 and :26-38: the first render and the mount effect
AppMount ==
  /\ Cloud /\ phase = "boot"
  /\ phase' = "run"
  /\ prompts' = getStoredPrompts(localBlob, now)
  /\ localBlob' = getStoredPromptsBlob(localBlob, now)
  /\ isSyncing' = isCloudEnabled
  /\ download' = IF isCloudEnabled THEN [st |-> "sent"] ELSE [st |-> "idle"]
  /\ lastOp' = Op("mount", 0, FALSE)
  /\ ghost' = ghost
  /\ Static /\ Quiet /\ UNCHANGED syncLog
  /\ UNCHANGED <<now, nextId, selectedPrompt, view, editor, drafts, remote, uploads, steps>>

\* the page is loaded anew: the modules are evaluated again and all state
\* but localStorage is gone
PageReload ==
  /\ phase = "run" /\ steps > 0
  /\ download.st \in {"idle", "done"} /\ uploads = <<>> /\ importing = Null
  /\ phase' = "boot"
  /\ loadedAt' = now
  /\ prompts' = <<>>
  /\ selectedPrompt' = Null
  /\ view' = "LIST"
  /\ isSyncing' = FALSE
  /\ editor' = Unmounted
  /\ download' = [st |-> "idle"]
  /\ notice' = Null
  /\ steps' = steps - 1
  /\ lastOp' = Op("reload", 0, FALSE)
  /\ UNCHANGED <<build, isCloudEnabled, now, nextId, localBlob, drafts, remote, uploads,
                 importing, exported, ghost, syncLog>>

\* handleCreatePrompt (App.tsx:54-71)
handleCreatePrompt ==
  /\ Cloud /\ Gesture
  /\ selectedPrompt' = NewPrompt(nextId, now)
  /\ view' = "EDITOR"
  /\ nextId' = nextId + 1
  /\ editor' = RenderCloud(editor, selectedPrompt, selectedPrompt', "EDITOR", drafts, prompts)
  /\ steps' = steps - 1
  /\ lastOp' = Op("create", nextId, FALSE)
  /\ ghost' = ghost
  /\ Static /\ Quiet /\ UNCHANGED syncLog
  /\ UNCHANGED <<phase, now, localBlob, prompts, isSyncing, drafts, remote, download, uploads>>

\* handleSelectPrompt (App.tsx:73-76), from a card of the list
handleSelectPrompt(i) ==
  /\ Cloud /\ Gesture /\ view = "LIST"
  /\ selectedPrompt' = prompts[i]
  /\ view' = "EDITOR"
  /\ editor' = RenderCloud(editor, selectedPrompt, prompts[i], "EDITOR", drafts, prompts)
  /\ steps' = steps - 1
  /\ lastOp' = Op("select", prompts[i]["id"], TRUE)
  /\ ghost' = ghost
  /\ Static /\ Quiet /\ UNCHANGED syncLog
  /\ UNCHANGED <<phase, now, nextId, localBlob, prompts, isSyncing, drafts, remote,
                 download, uploads>>

\* handleGoHome (App.tsx:182-185), from the sidebar or the editor's back button
handleGoHome ==
  /\ Cloud /\ Gesture /\ view = "EDITOR"
  /\ view' = "LIST"
  /\ selectedPrompt' = Null
  /\ editor' = Unmounted
  /\ steps' = steps - 1
  /\ lastOp' = Op("home", 0, FALSE)
  /\ ghost' = ghost
  /\ Static /\ Quiet /\ UNCHANGED syncLog
  /\ UNCHANGED <<phase, now, nextId, localBlob, prompts, isSyncing, drafts, remote,
                 download, uploads>>

\* a save through handleSavePrompt and updatePromptsState, then the re-render;
\* ed and dr are the editor and the draft cache as the calling handler left them
SaveAndRender(updatedPrompt, ed, dr, name) ==
  LET r == handleSavePrompt(prompts, selectedPrompt, updatedPrompt, now)
  IN /\ updatePromptsState(r.prompts)
     /\ selectedPrompt' = r.selected
     /\ drafts' = dr
     /\ editor' = RenderCloud(ed, selectedPrompt, r.selected, view, dr, r.prompts)
     /\ steps' = steps - 1
     /\ lastOp' = OpOn(name, updatedPrompt["id"], FindIndex(prompts, updatedPrompt["id"]) > 0,
                        IF FindIndex(prompts, updatedPrompt["id"]) > 0
                        THEN prompts[FindIndex(prompts, updatedPrompt["id"])] ELSE Null,
                        updatedPrompt)
     /\ ghost' = GhostSaved(ghost, updatedPrompt["id"],
                            FindIndex(prompts, updatedPrompt["id"]) > 0, name = "save")
     /\ Static /\ Quiet
     /\ UNCHANGED <<phase, now, nextId, view, isSyncing, remote, download>>

\* history: an edit at time t starts a new run of edits when it is the first
\* since the editor was mounted or comes 1000 ms or more after the last one;
\* ed.runs counts the runs, ed.runStart is the time of the first edit of the
\* current run, ed.writes the draft writes since it began, ed.earlier the
\* draft writes of the run before it
NewRun(ed, t) == ed.runs = 0 \/ t - ed.lastEdit >= 1000

\* an onChange of the editor (Icon.tsx:186, :314, :327) and the auto-save
\* effect it triggers (Icon.tsx:107-129)
EditorChange(field, value) ==
  /\ Cloud /\ Gesture /\ editor.mounted
  /\ editor.prompt[field] # value
  /\ LET next == Spread(editor.prompt, [f \in {field} |-> value])
     IN editor' = [editor EXCEPT !.prompt = next,
                                 !.saveStatus = "SAVING",
                                 !.timer = AutoSaveTimer(next, now),
                                 !.runs = IF NewRun(editor, now) THEN editor.runs + 1
                                          ELSE editor.runs,
                                 !.runStart = IF NewRun(editor, now) THEN now
                                              ELSE editor.runStart,
                                 !.writes = IF NewRun(editor, now) THEN 0 ELSE editor.writes,
                                 !.earlier = IF NewRun(editor, now) /\ editor.runs > 0
                                             THEN editor.writes ELSE editor.earlier,
                                 !.lastEdit = now]
  /\ steps' = steps - 1
  /\ lastOp' = Op("edit", editor.prompt["id"], FALSE)
  /\ ghost' = GhostEdited(ghost, editor.prompt["id"])
  /\ Static /\ Quiet /\ UNCHANGED syncLog
  /\ UNCHANGED <<phase, now, nextId, localBlob, prompts, selectedPrompt, view, isSyncing,
                 drafts, remote, download, uploads>>

\* the timer callback of Icon.tsx:119-122
AutoSaveFire ==
  /\ Cloud /\ phase = "run" /\ TimerDue
  /\ drafts' = saveDraft(drafts, editor.timer.prompt, now)
  /\ editor' = [editor EXCEPT !.saveStatus = "DRAFT_SAVED", !.timer = Null,
                              !.writes = editor.writes + 1]
  /\ lastOp' = Op("draft", editor.timer.prompt["id"], FALSE)
  /\ ghost' = ghost
  /\ Static /\ Quiet /\ UNCHANGED syncLog
  /\ UNCHANGED <<phase, now, nextId, localBlob, prompts, selectedPrompt, view, isSyncing,
                 remote, download, uploads, steps>>

\* handleSave of the editor (Icon.tsx:131-138)
EditorSave ==
  /\ Cloud /\ Gesture /\ editor.mounted
  /\ SaveAndRender(editor.prompt,
                   [editor EXCEPT !.saveStatus = "SAVED"],
                   removeDraft(drafts, editor.prompt["id"]),
                   "save")

\* (mutant) the star of the editor saves what the editor holds
EditorToggleFavoriteFromEdits ==
  /\ Cloud /\ Gesture /\ editor.mounted
  /\ SaveAndRender(Spread(editor.prompt, [isFavorite |-> ~IsFavorite(editor.prompt)]),
                   editor, drafts, "favorite")

\* the star of the editor (Icon.tsx:191, App.tsx:354)
EditorToggleFavorite ==
  /\ Cloud /\ Gesture /\ editor.mounted
  /\ SaveAndRender(Spread(selectedPrompt, [isFavorite |-> ~IsFavorite(selectedPrompt)]),
                   editor, drafts, "favorite")

\* handleCopyFullPrompt of the editor (Icon.tsx:150-156, App.tsx:355)
EditorMarkAsUsed ==
  /\ Cloud /\ Gesture /\ editor.mounted
  /\ SaveAndRender(Spread(selectedPrompt, [lastUsedAt |-> now]), editor, drafts, "used")

\* (mutant) the star of a card flips the flag of the stored record in place
ListToggleFavoriteInPlace(i) ==
  /\ Cloud /\ Gesture /\ view = "LIST"
  /\ updatePromptsState([prompts EXCEPT
                           ![i] = Spread(prompts[i], [isFavorite |-> ~IsFavorite(prompts[i])])])
  /\ steps' = steps - 1
  /\ lastOp' = OpOn("favorite", prompts[i]["id"], TRUE, prompts[i],
                     Spread(prompts[i], [isFavorite |-> ~IsFavorite(prompts[i])]))
  /\ ghost' = ghost
  /\ Static /\ Quiet
  /\ UNCHANGED <<phase, now, nextId, selectedPrompt, view, isSyncing, editor, drafts,
                 remote, download>>

\* the star of a card (PromptList.tsx:237-240, App.tsx:142-145)
ListToggleFavorite(i) ==
  /\ Cloud /\ Gesture /\ view = "LIST"
  /\ SaveAndRender(Spread(prompts[i], [isFavorite |-> ~IsFavorite(prompts[i])]),
                   editor, drafts, "favorite")

\* the copy button of a card (PromptList.tsx:214-230, App.tsx:147-150)
ListMarkAsUsed(i) ==
  /\ Cloud /\ Gesture /\ view = "LIST"
  /\ SaveAndRender(Spread(prompts[i], [lastUsedAt |-> now]), editor, drafts, "used")

\* handleDuplicatePrompt (App.tsx:120-140)
handleDuplicatePrompt(i) ==
  /\ Cloud /\ Gesture /\ view = "LIST"
  /\ updatePromptsState(<<DuplicateOf(prompts[i], nextId, now)>> \o prompts)
  /\ nextId' = nextId + 1
  /\ steps' = steps - 1
  /\ lastOp' = OpOn("duplicate", nextId, FALSE, prompts, prompts[i])
  /\ ghost' = ghost
  /\ Static /\ Quiet
  /\ UNCHANGED <<phase, now, selectedPrompt, view, isSyncing, editor, drafts, remote, download>>

\* handleDeletePrompt (App.tsx:152-161); confirmed is the answer to confirm()
handleDeletePrompt(i, confirmed) ==
  /\ Cloud /\ Gesture /\ view = "LIST"
  /\ IF confirmed
     THEN /\ updatePromptsState(FilterOut(prompts, prompts[i]["id"]))
          /\ IF selectedPrompt # Null /\ selectedPrompt["id"] = prompts[i]["id"]
             THEN view' = "LIST" /\ selectedPrompt' = Null /\ editor' = Unmounted
             ELSE UNCHANGED <<view, selectedPrompt, editor>>
     ELSE UNCHANGED <<prompts, localBlob, uploads, syncLog, view, selectedPrompt, editor>>
  /\ steps' = steps - 1
  /\ lastOp' = Op(IF confirmed THEN "delete" ELSE "declined", prompts[i]["id"], TRUE)
  /\ ghost' = IF confirmed THEN GhostRemoved(ghost, {prompts[i]["id"]}, TRUE) ELSE ghost
  /\ Static /\ Quiet
  /\ UNCHANGED <<phase, now, nextId, isSyncing, drafts, remote, download>>

\* handleDragEnd (PromptList.tsx:272-290) and handleReorderPrompts (App.tsx:164-180)
handleReorderPrompts(from, to) ==
  /\ Cloud /\ Gesture /\ view = "LIST"
  /\ from # to
  /\ updatePromptsState(Reordered(prompts, DragMove(FavoritesView(prompts), from, to)))
  /\ steps' = steps - 1
  /\ lastOp' = OpOn("reorder", 0, FALSE, prompts, DragMove(FavoritesView(prompts), from, to))
  /\ ghost' = ghost
  /\ Static /\ Quiet
  /\ UNCHANGED <<phase, now, nextId, selectedPrompt, view, isSyncing, editor, drafts,
                 remote, download>>

(* ------------------------------ supabase.ts ---------------------------- *)
\* the select of api.downloadData is answered (supabase.ts:32-55): ok is
\* FALSE for a network or server error; no row is an error too (PGRST116)
DownloadAnswer(ok) ==
  /\ Cloud /\ phase = "run" /\ ~TimerDue
  /\ download.st = "sent"
  /\ download' = IF ok /\ remote # Null
                 THEN [st |-> "answered", isNull |-> FALSE, data |-> remote.data]
                 ELSE [st |-> "answered", isNull |-> TRUE, data |-> <<>>]
  /\ lastOp' = Op("answer", 0, FALSE)
  /\ ghost' = ghost
  /\ Static /\ Quiet /\ UNCHANGED syncLog
  /\ UNCHANGED <<phase, now, nextId, localBlob, prompts, selectedPrompt, view, isSyncing,
                 editor, drafts, remote, uploads, steps>>

\* (mutant) the answer is dropped when the collection has been changed since
\* the download was sent
AcceptsCloudDataIfUntouched(answer) ==
  ~answer.isNull /\ Len(answer.data) > 0 /\ syncLog.started = <<>> /\ notice = Null

\* (mutant) an empty array is taken over as well
AcceptsAnyArray(answer) == ~answer.isNull

\* the condition of App.tsx:30 on what downloadData resolved with
AcceptsCloudData(answer) == ~answer.isNull /\ Len(answer.data) > 0

\* the then-callback of App.tsx:29-36
DownloadResolve ==
  /\ Cloud /\ phase = "run" /\ ~TimerDue
  /\ download.st = "answered"
  /\ IF AcceptsCloudData(download)
     THEN /\ prompts' = download.data
          /\ localBlob' = saveAllPrompts(download.data)
     ELSE UNCHANGED <<prompts, localBlob>>
  /\ isSyncing' = FALSE
  /\ download' = [st |-> "done"]
  /\ lastOp' = Op("downloaded", 0, AcceptsCloudData(download))
  /\ ghost' = IF AcceptsCloudData(download)
               THEN GhostRemoved(ghost, Ids(prompts), FALSE) ELSE ghost
  /\ syncLog' = SyncReplaced(syncLog, AcceptsCloudData(download))
  /\ Static /\ Quiet
  /\ UNCHANGED <<phase, now, nextId, selectedPrompt, view, editor, drafts, remote,
                 uploads, steps>>

\* (mutant) the server keeps the row when a request started later has
\* already been applied
UploadArriveVersioned(i) ==
  /\ Cloud /\ phase = "run" /\ ~TimerDue
  /\ i \in 1..Len(uploads)
  /\ remote' = IF \E k \in 1..Len(syncLog.settled) :
                      syncLog.settled[k].ok /\ syncLog.settled[k].n > syncLog.pending[i]
                THEN remote ELSE uploads[i]
  /\ uploads' = RemoveAt(uploads, i)
  /\ lastOp' = Op("uploaded", 0, TRUE)
  /\ syncLog' = SyncSettled(syncLog, i, TRUE)
  /\ ghost' = ghost
  /\ Static /\ Quiet
  /\ UNCHANGED <<phase, now, nextId, localBlob, prompts, selectedPrompt, view, isSyncing,
                 editor, drafts, download, steps>>

\* the upsert of api.uploadData reaches the server (supabase.ts:62-70)
UploadArrive(i) ==
  /\ Cloud /\ phase = "run" /\ ~TimerDue
  /\ i \in 1..Len(uploads)
  /\ remote' = uploads[i]
  /\ uploads' = RemoveAt(uploads, i)
  /\ lastOp' = Op("uploaded", 0, TRUE)
  /\ syncLog' = SyncSettled(syncLog, i, TRUE)
  /\ ghost' = ghost
  /\ Static /\ Quiet
  /\ UNCHANGED <<phase, now, nextId, localBlob, prompts, selectedPrompt, view, isSyncing,
                 editor, drafts, download, steps>>

\* (mutant) the failed request is sent again
UploadFailRetried(i) ==
  /\ Cloud /\ phase = "run" /\ ~TimerDue
  /\ i \in 1..Len(uploads)
  /\ uploads' = Append(RemoveAt(uploads, i), uploads[i])
  /\ lastOp' = Op("uploadFailed", 0, FALSE)
  /\ syncLog' = [SyncSettled(syncLog, i, FALSE) EXCEPT
                   !.pending = Append(@, syncLog.pending[i])]
  /\ ghost' = ghost
  /\ Static /\ Quiet
  /\ UNCHANGED <<phase, now, nextId, localBlob, prompts, selectedPrompt, view, isSyncing,
                 editor, drafts, remote, download, steps>>

\* the upsert fails; the catch of supabase.ts:71-73 logs and drops it
UploadFail(i) ==
  /\ Cloud /\ phase = "run" /\ ~TimerDue
  /\ i \in 1..Len(uploads)
  /\ uploads' = RemoveAt(uploads, i)
  /\ lastOp' = Op("uploadFailed", 0, FALSE)
  /\ syncLog' = SyncSettled(syncLog, i, FALSE)
  /\ ghost' = ghost
  /\ Static /\ Quiet
  /\ UNCHANGED <<phase, now, nextId, localBlob, prompts, selectedPrompt, view, isSyncing,
                 editor, drafts, remote, download, steps>>

(* ------------------------- src/unnamed/part_000 ------------------------ *)
\* part_000:20-22
LegacyMount ==
  /\ Legacy /\ phase = "boot"
  /\ phase' = "run"
  /\ prompts' = getStoredPrompts(localBlob, now)
  /\ localBlob' = getStoredPromptsBlob(localBlob, now)
  /\ lastOp' = Op("mount", 0, FALSE)
  /\ ghost' = ghost
  /\ Static /\ Quiet /\ UNCHANGED syncLog
  /\ UNCHANGED <<now, nextId, selectedPrompt, view, isSyncing, editor, drafts, remote,
                 download, uploads, steps>>

\* part_000:24-41
LegacyCreatePrompt ==
  /\ Legacy /\ Gesture
  /\ selectedPrompt' = NewPrompt(nextId, now)
  /\ view' = "EDITOR"
  /\ nextId' = nextId + 1
  /\ editor' = RenderLegacy(editor, selectedPrompt', "EDITOR", TRUE)
  /\ steps' = steps - 1
  /\ lastOp' = Op("create", nextId, FALSE)
  /\ ghost' = ghost
  /\ Static /\ Quiet /\ UNCHANGED syncLog
  /\ UNCHANGED <<phase, now, localBlob, prompts, isSyncing, drafts, remote, download, uploads>>

\* part_000:43-46
LegacySelectPrompt(i) ==
  /\ Legacy /\ Gesture /\ view = "LIST"
  /\ selectedPrompt' = prompts[i]
  /\ view' = "EDITOR"
  /\ editor' = RenderLegacy(editor, prompts[i], "EDITOR", TRUE)
  /\ steps' = steps - 1
  /\ lastOp' = Op("select", prompts[i]["id"], TRUE)
  /\ ghost' = ghost
  /\ Static /\ Quiet /\ UNCHANGED syncLog
  /\ UNCHANGED <<phase, now, nextId, localBlob, prompts, isSyncing, drafts, remote,
                 download, uploads>>

\* part_000:84-87
LegacyGoHome ==
  /\ Legacy /\ Gesture /\ view = "EDITOR"
  /\ view' = "LIST"
  /\ selectedPrompt' = Null
  /\ editor' = Unmounted
  /\ steps' = steps - 1
  /\ lastOp' = Op("home", 0, FALSE)
  /\ ghost' = ghost
  /\ Static /\ Quiet /\ UNCHANGED syncLog
  /\ UNCHANGED <<phase, now, nextId, localBlob, prompts, isSyncing, drafts, remote,
                 download, uploads>>

\* handleSavePrompt of part_000:48-60 with savePrompt (storageService.ts:49-76)
LegacySavePrompt(updatedPrompt0, name) ==
  LET updatedPrompt == WithDefaultTitle(updatedPrompt0)
      loaded == getStoredPrompts(localBlob, now)
      written == BlobOf(savePromptResult(loaded, updatedPrompt, now))
      allPrompts == getStoredPrompts(written, now)
      found == FindIndex(allPrompts, updatedPrompt["id"])
  IN /\ localBlob' = getStoredPromptsBlob(written, now)
     /\ prompts' = allPrompts
     /\ selectedPrompt' = IF found > 0 THEN allPrompts[found] ELSE selectedPrompt
     /\ editor' = RenderLegacy(editor, selectedPrompt', view, found > 0)
     /\ steps' = steps - 1
     /\ lastOp' = OpOn(name, updatedPrompt["id"], FindIndex(loaded, updatedPrompt["id"]) > 0,
                        IF FindIndex(loaded, updatedPrompt["id"]) > 0
                        THEN loaded[FindIndex(loaded, updatedPrompt["id"])] ELSE Null,
                        updatedPrompt0)
     /\ ghost' = GhostSaved(ghost, updatedPrompt["id"],
                            FindIndex(loaded, updatedPrompt["id"]) > 0, name = "save")
     /\ Static /\ Quiet /\ UNCHANGED syncLog
     /\ UNCHANGED <<phase, now, nextId, view, isSyncing, drafts, remote, download, uploads>>

\* an onChange of the editor (PromptEditor.tsx:106)
LegacyEditorChange(field, value) ==
  /\ Legacy /\ Gesture /\ editor.mounted
  /\ editor.prompt[field] # value
  /\ editor' = [editor EXCEPT !.prompt = Spread(editor.prompt, [f \in {field} |-> value])]
  /\ steps' = steps - 1
  /\ lastOp' = Op("edit", editor.prompt["id"], FALSE)
  /\ ghost' = GhostEdited(ghost, editor.prompt["id"])
  /\ Static /\ Quiet /\ UNCHANGED syncLog
  /\ UNCHANGED <<phase, now, nextId, localBlob, prompts, selectedPrompt, view, isSyncing,
                 drafts, remote, download, uploads>>

\* handleSave of PromptEditor.tsx:72-75
LegacyEditorSave ==
  /\ Legacy /\ Gesture /\ editor.mounted
  /\ LegacySavePrompt(editor.prompt, "save")

\* part_000:62-65, from the editor (part_000:215) or a card (part_000:205)
LegacyEditorToggleFavorite ==
  /\ Legacy /\ Gesture /\ editor.mounted
  /\ LegacySavePrompt(Spread(selectedPrompt, [isFavorite |-> ~selectedPrompt["isFavorite"]]),
                      "favorite")

LegacyListToggleFavorite(i) ==
  /\ Legacy /\ Gesture /\ view = "LIST"
  /\ LegacySavePrompt(Spread(prompts[i], [isFavorite |-> ~prompts[i]["isFavorite"]]),
                      "favorite")

\* part_000:67-71, from the editor (part_000:216) or a card (part_000:206)
LegacyEditorMarkAsUsed ==
  /\ Legacy /\ Gesture /\ editor.mounted
  /\ LegacySavePrompt(Spread(selectedPrompt, [lastUsedAt |-> now]), "used")

LegacyListMarkAsUsed(i) ==
  /\ Legacy /\ Gesture /\ view = "LIST"
  /\ LegacySavePrompt(Spread(prompts[i], [lastUsedAt |-> now]), "used")

\* handleDeletePrompt of part_000:73-82 with deletePrompt (storageService.ts:78-82)
LegacyDeletePrompt(i, confirmed) ==
  /\ Legacy /\ Gesture /\ view = "LIST"
  /\ IF confirmed
     THEN LET written == BlobOf(deletePromptResult(getStoredPrompts(localBlob, now),
                                                   prompts[i]["id"]))
          IN /\ localBlob' = getStoredPromptsBlob(written, now)
             /\ prompts' = getStoredPrompts(written, now)
             /\ IF selectedPrompt # Null /\ selectedPrompt["id"] = prompts[i]["id"]
                THEN view' = "LIST" /\ selectedPrompt' = Null /\ editor' = Unmounted
                ELSE UNCHANGED <<view, selectedPrompt, editor>>
     ELSE UNCHANGED <<prompts, localBlob, view, selectedPrompt, editor>>
  /\ steps' = steps - 1
  /\ lastOp' = Op(IF confirmed THEN "delete" ELSE "declined", prompts[i]["id"], TRUE)
  /\ ghost' = IF confirmed THEN GhostRemoved(ghost, {prompts[i]["id"]}, TRUE) ELSE ghost
  /\ Static /\ Quiet /\ UNCHANGED syncLog
  /\ UNCHANGED <<phase, now, nextId, isSyncing, drafts, remote, download, uploads>>

(* -------------------- handleExport and handleImport -------------------- *)
\* what JSON.parse makes of the text of the chosen file: it throws, or yields
\* something that is not an array, or an array
FileGarbage == [kind |-> "garbage"]
FileObject == [kind |-> "json", isArray |-> FALSE]
FileArray(entries) == [kind |-> "json", isArray |-> TRUE, data |-> entries]

\* a backup written by hand or by an older version: an entry under the id of
\* a stored record, an entry under a new id without createdAt, history and
\* isFavorite, an entry without id, one with an empty template and one with
\* an empty title
BackupEntries ==
  << [id |-> 1, title |-> "imp", template |-> "y", updatedAt |-> 700, createdAt |-> 100,
      history |-> <<>>, isFavorite |-> FALSE],
     [id |-> 17, title |-> "new", template |-> "z", updatedAt |-> 900],
     [title |-> "noid", template |-> "z", updatedAt |-> 800],
     [id |-> 18, title |-> "t", template |-> "", updatedAt |-> 800],
     [id |-> 16, title |-> "", template |-> "q", updatedAt |-> 600, createdAt |-> 600,
      history |-> <<>>, isFavorite |-> TRUE] >>

\* a backup in which one id occurs twice
TwiceEntries ==
  << [id |-> 17, title |-> "new", template |-> "z", updatedAt |-> 900, createdAt |-> 900,
      history |-> <<>>, isFavorite |-> FALSE],
     [id |-> 17, title |-> "newer", template |-> "z", updatedAt |-> 950, createdAt |-> 900,
      history |-> <<>>, isFavorite |-> FALSE] >>

\* the files the user can pick
ImportFiles ==
  {FileGarbage, FileObject, FileArray(BackupEntries)}
    \cup (IF exported = Null THEN {} ELSE {exported})

\* Array.isArray of what JSON.parse returned
IsArrayFile(f) == IF f.kind = "json" THEN f.isArray ELSE FALSE

\* JavaScript truthiness of a string field that may be absent
Truthy(p, k) == Has(p, k) /\ p[k] # ""

\* the filter of App.tsx:228
ValidForReplace(p) == Has(p, "id") /\ Truthy(p, "template")

\* the condition of part_000:131
ValidForMerge(p) == Has(p, "id") /\ Truthy(p, "title") /\ Truthy(p, "template")

\* part_000:132-134
Backfilled(p, t) ==
  LET p1 == IF ~Has(p, "createdAt") \/ p["createdAt"] = 0
            THEN Spread(p, [createdAt |-> IF Has(p, "updatedAt") /\ p["updatedAt"] # 0
                                          THEN p["updatedAt"] ELSE t])
            ELSE p
      p2 == IF ~Has(p1, "history") THEN Spread(p1, [history |-> <<>>]) ELSE p1
  IN IF ~Has(p2, "isFavorite") THEN Spread(p2, [isFavorite |-> FALSE]) ELSE p2

\* (mutant) the record already in the map wins on an id collision
MapSetFirstWins(m, p) ==
  IF FindIndex(m, p["id"]) > 0 THEN m ELSE Append(m, p)

\* Map.prototype.set on a map kept in insertion order
MapSet(m, p) ==
  IF FindIndex(m, p["id"]) > 0 THEN [m EXCEPT ![FindIndex(m, p["id"])] = p]
  ELSE Append(m, p)

\* part_000:127-137: the map of the current collection, overlaid with the
\* valid entries of the file in file order
RECURSIVE Overlay(_, _, _)
Overlay(m, entries, t) ==
  IF entries = <<>> THEN m
  ELSE Overlay(IF ValidForMerge(Head(entries)) THEN MapSet(m, Backfilled(Head(entries), t))
               ELSE m,
               Tail(entries), t)

\* Array.prototype.sort with the comparator of part_000:140 (the sort is stable)
RECURSIVE InsertByUpdatedAt(_, _)
InsertByUpdatedAt(x, s) ==
  IF s = <<>> THEN <<x>>
  ELSE IF Head(s)["updatedAt"] >= x["updatedAt"]
       THEN <<Head(s)>> \o InsertByUpdatedAt(x, Tail(s))
  ELSE <<x>> \o s

RECURSIVE SortByUpdatedAt(_)
SortByUpdatedAt(s) ==
  IF s = <<>> THEN <<>>
  ELSE InsertByUpdatedAt(s[Len(s)], SortByUpdatedAt(SubSeq(s, 1, Len(s) - 1)))

\* mergedPrompts of part_000:139-140
MergedPrompts(current, entries, t) == SortByUpdatedAt(Overlay(current, entries, t))

\* the alerts
ImportedNotice(n) == [kind |-> "imported", count |-> n]
FormatErrorNotice == [kind |-> "formatError"]
ImportFailedNotice == [kind |-> "importFailed"]
CloudFailedNotice == [kind |-> "cloudSyncFailed"]

\* handleExport (App.tsx:196-208, part_000:98-110): the file holds
\* JSON.stringify(prompts)
handleExport ==
  /\ Gesture
  /\ exported' = FileArray(Json(prompts))
  /\ steps' = steps - 1
  /\ lastOp' = Op("export", 0, FALSE)
  /\ ghost' = ghost
  /\ Static
  /\ UNCHANGED <<phase, now, nextId, localBlob, prompts, selectedPrompt, view, isSyncing,
                 editor, drafts, remote, download, uploads, importing, notice, syncLog>>

\* handleImport up to its first await (App.tsx:210-220, part_000:112-118);
\* confirmed is the answer to confirm().  The closure holds the prompts of
\* the render the handler belongs to.
handleImport(file, confirmed) ==
  /\ Gesture /\ importing = Null
  /\ importing' = IF confirmed
                  THEN [stage |-> "reading", file |-> file, closure |-> prompts]
                  ELSE Null
  /\ steps' = steps - 1
  /\ lastOp' = Op(IF confirmed THEN "importStart" ELSE "importDeclined", 0, FALSE)
  /\ ghost' = ghost
  /\ Static
  /\ UNCHANGED <<phase, now, nextId, localBlob, prompts, selectedPrompt, view, isSyncing,
                 editor, drafts, remote, download, uploads, notice, exported, syncLog>>

\* (mutant) the collection is emptied before the file is looked at
ImportRejectedAfterClear ==
  /\ phase = "run" /\ ~TimerDue
  /\ importing # Null /\ importing.stage = "reading"
  /\ ~IsArrayFile(importing.file)
  /\ notice' = IF importing.file.kind = "garbage" THEN ImportFailedNotice
               ELSE FormatErrorNotice
  /\ importing' = Null
  /\ lastOp' = OpOn("importRejected", 0, FALSE, prompts, importing)
  /\ ghost' = ghost
  /\ prompts' = <<>>
  /\ localBlob' = saveAllPrompts(<<>>)
  /\ Static
  /\ UNCHANGED <<phase, now, nextId, selectedPrompt, view, isSyncing,
                 editor, drafts, remote, download, uploads, exported, steps, syncLog>>

\* file.text() has resolved and the file is rejected: JSON.parse throws
\* (App.tsx:254-257, part_000:145-148) or the value is not an array
\* (App.tsx:222-225, part_000:120-123)
ImportRejected ==
  /\ phase = "run" /\ ~TimerDue
  /\ importing # Null /\ importing.stage = "reading"
  /\ ~IsArrayFile(importing.file)
  /\ notice' = IF importing.file.kind = "garbage" THEN ImportFailedNotice
               ELSE FormatErrorNotice
  /\ importing' = Null
  /\ lastOp' = OpOn("importRejected", 0, FALSE, prompts, importing)
  /\ ghost' = ghost
  /\ Static
  /\ UNCHANGED <<phase, now, nextId, localBlob, prompts, selectedPrompt, view, isSyncing,
                 editor, drafts, remote, download, uploads, exported, steps, syncLog>>

\* file.text() has resolved with an array, App.tsx:227-253: without a remote
\* the valid entries go through updatePromptsState; with one, the upload is
\* started and awaited
ImportFileRead ==
  /\ Cloud /\ phase = "run" /\ ~TimerDue
  /\ importing # Null /\ importing.stage = "reading"
  /\ IsArrayFile(importing.file)
  /\ LET validPrompts == SelectSeq(importing.file.data, ValidForReplace)
     IN IF isCloudEnabled
        THEN /\ isSyncing' = TRUE
             /\ importing' = [stage |-> "uploading", file |-> importing.file,
                              closure |-> importing.closure, validPrompts |-> validPrompts]
             /\ lastOp' = OpOn("importUpload", 0, TRUE, prompts, importing)
             /\ ghost' = ghost
             /\ UNCHANGED <<prompts, localBlob, uploads, syncLog, notice>>
        ELSE /\ updatePromptsState(validPrompts)
             /\ notice' = ImportedNotice(Len(validPrompts))
             /\ importing' = Null
             /\ lastOp' = OpOn("imported", 0, TRUE, prompts, importing)
             /\ ghost' = GhostRemoved(ghost, Ids(prompts) \cup Ids(validPrompts), FALSE)
             /\ UNCHANGED isSyncing
  /\ Static
  /\ UNCHANGED <<phase, now, nextId, selectedPrompt, view, editor, drafts, remote,
                 download, exported, steps>>

\* the promise of api.uploadData resolves (supabase.ts:58-74: the catch of
\* :71-73 keeps it from rejecting) and handleImport goes on, App.tsx:236-248;
\* ok tells whether the upsert reached the server
ImportUploadSettled(ok) ==
  /\ Cloud /\ phase = "run" /\ ~TimerDue
  /\ importing # Null /\ importing.stage = "uploading"
  /\ remote' = IF ok THEN UploadRequest(importing.validPrompts) ELSE remote
  /\ prompts' = importing.validPrompts
  /\ localBlob' = saveAllPrompts(importing.validPrompts)
  /\ notice' = ImportedNotice(Len(importing.validPrompts))
  /\ isSyncing' = FALSE
  /\ importing' = Null
  /\ lastOp' = OpOn("imported", 0, ok, prompts, importing)
  /\ ghost' = GhostRemoved(ghost, Ids(prompts) \cup Ids(importing.validPrompts), FALSE)
  /\ syncLog' = SyncReplaced(syncLog, TRUE)
  /\ Static
  /\ UNCHANGED <<phase, now, nextId, selectedPrompt, view, editor, drafts, download,
                 uploads, exported, steps>>

\* file.text() has resolved with an array, part_000:125-144
LegacyImportFileRead ==
  /\ Legacy /\ phase = "run"
  /\ importing # Null /\ importing.stage = "reading"
  /\ IsArrayFile(importing.file)
  /\ LET mergedPrompts == MergedPrompts(importing.closure, importing.file.data, now)
     IN /\ localBlob' = saveAllPrompts(mergedPrompts)
        /\ prompts' = mergedPrompts
        /\ ghost' = GhostRemoved(ghost, Ids(prompts) \cup Ids(mergedPrompts), FALSE)
  /\ notice' = ImportedNotice(Len(importing.file.data))
  /\ importing' = Null
  /\ lastOp' = OpOn("imported", 0, TRUE, prompts, importing)
  /\ Static
  /\ UNCHANGED <<phase, now, nextId, selectedPrompt, view, isSyncing, editor, drafts,
                 remote, download, uploads, exported, steps, syncLog>>

(* --------------------------- specifications ---------------------------- *)
EditTitles == {"", "b"}

InitWith(builds, clouds, bound, blobs, remotes) ==
  /\ build \in builds
  /\ loadedAt = BootTime
  /\ isCloudEnabled \in (IF build = "cloud" THEN clouds ELSE {FALSE})
  /\ phase = "boot"
  /\ now = BootTime
  /\ nextId = 4
  /\ localBlob \in blobs
  /\ prompts = <<>>
  /\ selectedPrompt = Null
  /\ view = "LIST"
  /\ isSyncing = FALSE
  /\ editor = Unmounted
  /\ drafts = (IF build = "cloud" THEN PriorDrafts ELSE <<>>)
  /\ remote \in remotes
  /\ download = [st |-> "idle"]
  /\ uploads = <<>>
  /\ steps = bound
  /\ importing = Null
  /\ notice = Null
  /\ exported = Null
  /\ lastOp = Op("init", 0, FALSE)
  /\ ghost = GhostInit(KnownIds)
  /\ syncLog = SyncInit

CloudGesture ==
  \/ handleCreatePrompt
  \/ \E i \in 1..Len(prompts) : handleSelectPrompt(i)
  \/ handleGoHome
  \/ EditorSave
  \/ EditorToggleFavorite
  \/ EditorMarkAsUsed
  \/ \E i \in 1..Len(prompts) : ListToggleFavorite(i)
  \/ \E i \in 1..Len(prompts) : ListMarkAsUsed(i)
  \/ \E i \in 1..Len(prompts) : handleDuplicatePrompt(i)
  \/ \E i \in 1..Len(prompts), c \in BOOLEAN : handleDeletePrompt(i, c)
  \/ \E a, b \in 1..Len(FavoritesView(prompts)) : handleReorderPrompts(a, b)

NetworkEvent ==
  \/ \E ok \in BOOLEAN : DownloadAnswer(ok)
  \/ DownloadResolve
  \/ \E i \in 1..Len(uploads) : UploadArrive(i)
  \/ \E i \in 1..Len(uploads) : UploadFail(i)

LegacyGesture ==
  \/ LegacyCreatePrompt
  \/ \E i \in 1..Len(prompts) : LegacySelectPrompt(i)
  \/ LegacyGoHome
  \/ \E v \in EditTitles : LegacyEditorChange("title", v)
  \/ LegacyEditorSave
  \/ LegacyEditorToggleFavorite
  \/ LegacyEditorMarkAsUsed
  \/ \E i \in 1..Len(prompts) : LegacyListToggleFavorite(i)
  \/ \E i \in 1..Len(prompts) : LegacyListMarkAsUsed(i)
  \/ \E i \in 1..Len(prompts), c \in BOOLEAN : LegacyDeletePrompt(i, c)

\* App.tsx without a remote endpoint: the local-only mode
Init == InitWith({"cloud"}, {FALSE}, MaxSteps, InitialBlobs, {Null})
Next ==
  \/ Tick
  \/ AppMount
  \/ \E v \in EditTitles : EditorChange("title", v)
  \/ AutoSaveFire
  \/ CloudGesture
Spec == Init /\ [][Next]_vars

\* App.tsx with a remote endpoint configured; the user leaves the fields of
\* the editor alone, and the whole run falls within one reading of the clock
InitCloud == InitWith({"cloud"}, {TRUE}, CloudSteps, InitialBlobs, InitialRemotes)
NextCloud == AppMount \/ CloudGesture \/ NetworkEvent
SpecCloud == InitCloud /\ [][NextCloud]_vars

\* part_000
InitLegacy == InitWith({"legacy"}, {FALSE}, MaxSteps, InitialBlobs, {Null})
NextLegacy == Tick \/ LegacyMount \/ LegacyGesture
SpecLegacy == InitLegacy /\ [][NextLegacy]_vars

\* both builds, one record created and then saved again and again from the editor
InitHistory == InitWith({"cloud", "legacy"}, {FALSE}, DeepSteps, InitialBlobs, {Null})
NextHistory ==
  \/ Tick
  \/ AppMount
  \/ LegacyMount
  \/ (nextId - 4 < MaxCreated /\ handleCreatePrompt)
  \/ (nextId - 4 < MaxCreated /\ LegacyCreatePrompt)
  \/ EditorSave
  \/ LegacyEditorSave
SpecHistory == InitHistory /\ [][NextHistory]_vars

\* App.tsx without a remote endpoint, the editor at work on one record for
\* longer than the debounce delay
InitDraft == InitWith({"cloud"}, {FALSE}, DraftSteps, InitialBlobs, {Null})
NextDraft ==
  \/ TickWithin(DraftTicks)
  \/ AppMount
  \/ AutoSaveFire
  \/ handleCreatePrompt
  \/ \E i \in 1..Len(prompts) : handleSelectPrompt(i)
  \/ handleGoHome
  \/ \E v \in EditTitles : EditorChange("title", v)
  \/ EditorSave
SpecDraft == InitDraft /\ [][NextDraft]_vars

\* both versions of handleImport, each with its mode; between the start of
\* an import and the end of the file read the user can change the collection
InitImport == InitWith({"cloud", "legacy"}, {TRUE, FALSE}, ImportSteps, InitialBlobs,
                       InitialRemotes)
NextImport ==
  \/ AppMount
  \/ LegacyMount
  \/ \E f \in ImportFiles, c \in BOOLEAN : handleImport(f, c)
  \/ ImportRejected
  \/ ImportFileRead
  \/ \E ok \in BOOLEAN : ImportUploadSettled(ok)
  \/ LegacyImportFileRead
  \/ \E i \in 1..Len(prompts) : handleDeletePrompt(i, TRUE)
  \/ \E i \in 1..Len(prompts) : LegacyListToggleFavorite(i)
  \/ NetworkEvent
SpecImport == InitImport /\ [][NextImport]_vars

\* App.tsx with and without a remote endpoint configured, a row being there
\* or not in either case
InitModes == InitWith({"cloud"}, {TRUE, FALSE}, ModeSteps, InitialBlobs, InitialRemotes)
NextModes ==
  \/ AppMount
  \/ CloudGesture
  \/ \E f \in ImportFiles, c \in BOOLEAN : handleImport(f, c)
  \/ ImportRejected
  \/ ImportFileRead
  \/ \E ok \in BOOLEAN : ImportUploadSettled(ok)
  \/ NetworkEvent
SpecModes == InitModes /\ [][NextModes]_vars

\* part_000 from an empty and from a filled store: records are made, the
\* collection is exported, records are deleted, the file is imported
InitRoundTrip == InitWith({"legacy"}, {FALSE}, RoundTripSteps,
                          {BlobOf(<<>>), BlobOf(PriorCollection)}, {Null})
NextRoundTrip ==
  \/ LegacyMount
  \/ LegacyCreatePrompt
  \/ LegacyEditorSave
  \/ LegacyGoHome
  \/ handleExport
  \/ \E i \in 1..Len(prompts) : LegacyDeletePrompt(i, TRUE)
  \/ (exported # Null /\ handleImport(exported, TRUE))
  \/ LegacyImportFileRead
SpecRoundTrip == InitRoundTrip /\ [][NextRoundTrip]_vars

\* App.tsx with and without a remote endpoint; the backups the user imports
\* are arrays, one of them with an id that occurs twice
InitIds == InitWith({"cloud"}, {TRUE, FALSE}, IdSteps, InitialBlobs, InitialRemotes)
NextIds ==
  \/ AppMount
  \/ CloudGesture
  \/ \E f \in {FileArray(BackupEntries), FileArray(TwiceEntries)} : handleImport(f, TRUE)
  \/ ImportFileRead
  \/ \E ok \in BOOLEAN : ImportUploadSettled(ok)
  \/ NetworkEvent
SpecIds == InitIds /\ [][NextIds]_vars

\* App.tsx, one record: its star and its copy button are used in turn from
\* the list, again and again
InitToggles == InitWith({"cloud"}, {FALSE}, ToggleSteps, ToggleBlobs, {Null})
NextToggles ==
  \/ Tick
  \/ AppMount
  \/ (Len(prompts) = 1 /\ (ToggleSteps - steps) % 2 = 0 /\ ListToggleFavorite(1))
  \/ (Len(prompts) = 1 /\ (ToggleSteps - steps) % 2 = 1 /\ ListMarkAsUsed(1))
SpecToggles == InitToggles /\ [][NextToggles]_vars

\* both builds load what an earlier session, an earlier version or anything
\* else left in localStorage, time passes, the page is reloaded
InitLoad == InitWith({"cloud", "legacy"}, {FALSE}, LoadSteps, LoadBlobs, {Null})
NextLoad == Tick \/ AppMount \/ LegacyMount \/ PageReload
SpecLoad == InitLoad /\ [][NextLoad]_vars

(* ------------------------------- claims -------------------------------- *)
Min(a, b) == IF a < b THEN a ELSE b

\* the record stored under id, or Null
Stored(id) ==
  IF FindIndex(prompts, id) > 0 THEN prompts[FindIndex(prompts, id)] ELSE Null

\* the cap the claim names for each call site
ClaimedCap == IF build = "cloud" THEN 20 ELSE 10

\* C1: a record that handleCreatePrompt made and that has since been saved N
\* times (the first save creating it, the later ones overwriting it) has
\* min(N-1, CAP) history entries, CAP being 20 in App.tsx and 10 in
\* storageService.ts; the entries are newest-first: after an overwriting save
\* the first entry is the record as stored before that save, followed by the
\* earlier history, its oldest entries dropped.
C1_HistoryCap ==
  \A id \in DOMAIN ghost.saves :
     /\ Stored(id) # Null
     /\ Len(Stored(id)["history"]) = Min(ghost.saves[id] - 1, ClaimedCap)
     /\ (lastOp.op = "save" /\ lastOp.id = id /\ lastOp.existed) =>
          /\ Stored(id)["history"][1] = Omit(lastOp.before, "history")
          /\ \A k \in 2..Len(Stored(id)["history"]) :
                Stored(id)["history"][k] = lastOp.before["history"][k - 1]

\* a record saved 22 times under App.tsx: the cap has dropped an entry, and the
\* entries kept are not all of the same time
C1_Witness ==
  /\ build = "cloud"
  /\ \E id \in DOMAIN ghost.saves :
        /\ ghost.saves[id] = 22
        /\ Len(Stored(id)["history"]) = 20
        /\ Stored(id)["history"][1]["updatedAt"] > Stored(id)["history"][20]["updatedAt"]

\* the steps that go through handleSavePrompt or savePrompt
SaveOps == {"save", "favorite", "used"}

\* the last step was a save that found its id in the collection
Overwrote == lastOp.op \in SaveOps /\ lastOp.existed

\* no entry of a history of collection s has a history field
NoNestedHistory(s) ==
  \A i \in 1..Len(s) :
     Has(s[i], "history") =>
        \A k \in 1..Len(s[i]["history"]) : ~Has(s[i]["history"][k], "history")

\* C2: the collection this run started from has no history entry with a
\* history field, and after any sequence of saves, favorite toggles,
\* mark-as-used actions, duplicates, reorders and deletes no entry of any
\* record's history has one, in memory or in localStorage; the entry an
\* overwriting save adds is the record as it was stored, its history stripped.
C2_NoNestedHistory ==
  /\ NoNestedHistory(prompts)
  /\ localBlob.kind = "json" => NoNestedHistory(localBlob.data)
  /\ Overwrote => Stored(lastOp.id)["history"][1] = Omit(lastOp.before, "history")

\* an overwriting save of a record that already had a history: the snapshot
\* was taken of a record with a history field
C2_Witness ==
  /\ Overwrote
  /\ Len(lastOp.before["history"]) >= 1
  /\ Len(Stored(lastOp.id)["history"]) >= 2

\* C3 (as stated): after every save, creating or overwriting, the stored
\* record's updatedAt is the time of that save.
C3_UpdatedAtIsSaveTime ==
  lastOp.op \in SaveOps => Stored(lastOp.id)["updatedAt"] = now

\* the history of the record of s under id grew in this step
Lengthened(id) ==
  /\ Lookup(prompts, id) # Null /\ Lookup(prompts', id) # Null
  /\ Len(Lookup(prompts', id)["history"]) > Len(Lookup(prompts, id)["history"])

C5_SaveClearsDraft == \A id \in ghost.clean : id \notin DOMAIN drafts

\* C6: the editor that opens a record starts from the cached draft of that
\* record, with status DRAFT_SAVED, exactly when there is a draft and its
\* updatedAt is greater than the record's; with no draft, or one that is as
\* old or older, it starts from the record, with status SAVED.  The record it
\* is handed is the stored one whenever the id is stored.
C6_DraftPrecedence ==
  (Cloud /\ editor.mounted) =>
     LET m == editor.mountedWith
     IN /\ m.canonical # Null => m.canonical = m.initialData
        /\ IF m.draft # Null /\ m.draft["updatedAt"] > m.initialData["updatedAt"]
           THEN m.prompt = m.draft /\ m.saveStatus = "DRAFT_SAVED"
           ELSE m.prompt = m.initialData /\ m.saveStatus = "SAVED"

\* the editor has opened a stored record whose cached draft is exactly as old
\* as the record
C6_Witness ==
  /\ Cloud /\ editor.mounted
  /\ editor.mountedWith.canonical # Null
  /\ editor.mountedWith.draft # Null
  /\ editor.mountedWith.draft["updatedAt"] = editor.mountedWith.canonical["updatedAt"]
  /\ editor.mountedWith.draft # editor.mountedWith.canonical

\* C7: for as long as one editor instance stays mounted, a draft is written
\* only when 1000 ms have passed since the last edit, and what is written is
\* the editor's state after that edit, stamped with the time of the write;
\* between the first edit of a run (edits each less than 1000 ms after the
\* one before) and its draft write nothing is written, and every run that is
\* followed by another has been written exactly once.
C7_DebouncedWriter ==
  /\ lastOp.op = "draft" =>
        /\ editor.mounted
        /\ now - editor.lastEdit >= 1000
        /\ getDraft(drafts, lastOp.id) = Spread(editor.prompt, [updatedAt |-> now])
  /\ (Cloud /\ editor.mounted /\ editor.runs > 0) =>
        /\ editor.earlier = 1
        /\ \/ editor.timer # Null /\ editor.writes = 0 /\ now - editor.lastEdit <= 1000
           \/ editor.timer = Null /\ editor.writes = 1 /\ now - editor.lastEdit >= 1000

\* a run of two edits at different times has just been written as one draft,
\* which holds the title of the second edit
C7_Witness ==
  /\ lastOp.op = "draft"
  /\ editor.lastEdit > editor.runStart
  /\ editor.writes = 1
  /\ getDraft(drafts, lastOp.id)["title"] = editor.prompt["title"]
  /\ getDraft(drafts, lastOp.id)["title"] # editor.mountedWith.prompt["title"]

\* C8 (as stated): a record removed by a confirmed delete is gone from the
\* collection and has no draft in the draft cache.
C8_DeleteDiscardsDraft ==
  \A id \in ghost.deleted : id \notin Ids(prompts) /\ id \notin DOMAIN drafts

\* C9: with a remote configured, one download is sent, by the mount effect,
\* and none after it.  When it resolves with a non-empty array, that array
\* becomes the in-memory collection and the content of localStorage, whatever
\* was there and whatever the timestamps; when it resolves with an empty
\* array or with null (no row, or an error) both are left as they were.
C9_StartupReconciliation ==
  [][/\ (download'.st = "sent" /\ download.st # "sent") =>
           phase = "boot" /\ download.st = "idle"
     /\ (isCloudEnabled /\ phase' = "run") => download'.st # "idle"
     /\ (download.st = "answered" /\ download'.st = "done") =>
           IF ~download.isNull /\ Len(download.data) > 0
           THEN /\ prompts' = download.data
                /\ localBlob' = [kind |-> "json", data |-> download.data]
           ELSE UNCHANGED <<prompts, localBlob>>]_vars

\* the download has resolved with the remote array, which differs from what
\* was stored locally, and both the collection and localStorage now hold it
C9_Witness ==
  /\ lastOp.op = "downloaded"
  /\ prompts = RemoteCollection
  /\ localBlob.data = RemoteCollection
  /\ RemoteCollection # PriorCollection

\* the steps that change the collection through updatePromptsState
MutationOps == SaveOps \cup {"duplicate", "delete", "reorder"}

\* C10: with a remote configured, each save, delete, favorite toggle,
\* mark-as-used, reorder and duplicate starts one upload, queued behind the
\* uploads started before it; its payload is the collection as that step
\* leaves it, which is also what the step writes to localStorage.  No other
\* step starts an upload.
C10_WriteThrough ==
  [][IF lastOp'.op \in MutationOps
     THEN /\ uploads' = Append(uploads, [data |-> localBlob'.data])
          /\ localBlob' = [kind |-> "json", data |-> Json(prompts')]
     ELSE /\ Len(uploads') <= Len(uploads)
          /\ \A i \in 1..Len(uploads') : \E j \in 1..Len(uploads) : uploads'[i] = uploads[j]]_vars

\* two mutations in a row: two uploads are in flight, in the order of the
\* mutations, the later one carrying the collection as it is now
C10_Witness ==
  /\ isCloudEnabled
  /\ lastOp.op \in MutationOps
  /\ Len(uploads) = 2
  /\ uploads[2].data = Json(prompts)
  /\ uploads[1].data # uploads[2].data

\* the last step ended an import that App.tsx ran with a remote configured
CloudImportEnded == Cloud /\ isCloudEnabled /\ lastOp.op = "imported"

\* C11 (as stated): when an import runs with a remote configured, the valid
\* entries end up in the collection and in localStorage whether or not the
\* awaited upload reached the server, and when it did not, the alert shown is
\* the cloud-sync-failed one and not the success one.
C11_ImportFailureSurfaced ==
  CloudImportEnded =>
     /\ prompts = lastOp.carried.validPrompts
     /\ localBlob = BlobOf(lastOp.carried.validPrompts)
     /\ notice = IF lastOp.existed THEN ImportedNotice(Len(lastOp.carried.validPrompts))
                 ELSE CloudFailedNotice

\* an entry of syncLog.settled for a request that reached the server
Arrived(e) == e.ok

\* C12: the remote row is whatever the request that reached the server last
\* carried, in whatever order the requests were started, and the arrival of a
\* request changes nothing locally; so when of two uploads the later one
\* arrives first, the row ends with the collection of the earlier mutation
\* while localStorage holds that of the later one.
C12_RemoteHoldsLastArrival ==
  LET arrivals == SelectSeq(syncLog.settled, Arrived)
  IN /\ arrivals # <<>> => remote = syncLog.started[arrivals[Len(arrivals)].n]
     /\ syncLog.started # <<>> =>
           localBlob.data = syncLog.started[Len(syncLog.started)].data
           \/ download.st = "done"

\* two mutations, the second upload has arrived before the first: the row
\* holds the collection after the first, localStorage the one after the second
C12_Witness ==
  /\ Len(syncLog.started) = 2
  /\ syncLog.settled = <<[n |-> 2, ok |-> TRUE], [n |-> 1, ok |-> TRUE]>>
  /\ uploads = <<>>
  /\ remote = syncLog.started[1]
  /\ localBlob.data = syncLog.started[2].data
  /\ syncLog.started[1] # syncLog.started[2]

\* C13: once sent, the startup download stays in flight until its answer is
\* handled: no other step withdraws it.  When it resolves with a non-empty
\* array, that array replaces the collection and localStorage even though
\* mutations or an import have changed both since it was sent, and what they
\* had written locally is gone.
C13_StaleDownloadWins ==
  [][/\ lastOp'.op \notin {"mount", "answer", "downloaded"} => download' = download
     /\ download.st = "sent" => download'.st \in {"sent", "answered"}
     /\ download.st = "answered" => download'.st \in {"answered", "done"}
     /\ (download.st = "answered" /\ download'.st = "done"
         /\ ~download.isNull /\ Len(download.data) > 0
         /\ (syncLog.started # <<>> \/ notice # Null)) =>
           /\ prompts' = download.data
           /\ localBlob' = BlobOf(download.data)]_vars

\* a mutation and then an import were applied while the download was in
\* flight; the download has resolved with the row as it was at the start, and
\* neither the mutation nor the import is left in the collection
C13_Witness ==
  /\ lastOp.op = "downloaded" /\ lastOp.existed
  /\ syncLog.started # <<>>
  /\ notice # Null /\ notice.kind = "imported"
  /\ prompts = RemoteCollection
  /\ localBlob.data = RemoteCollection
  /\ syncLog.started[Len(syncLog.started)].data # RemoteCollection
  /\ remote.data # RemoteCollection

\* the step ends an upload; Ended is its entry in the log
Ends == Len(syncLog'.settled) = Len(syncLog.settled) + 1
Ended == syncLog'.settled[Len(syncLog'.settled)]

\* C14: when the upload of a mutation fails, the collection and localStorage
\* stay as the mutation left them, no alert is shown, the row is not touched,
\* and the request is gone: it is not in flight any more and no new request
\* is started for it.  An upload that arrives, whatever failed before it,
\* sets the row to the payload it was started with, the full collection as
\* of its mutation.
C14_FailedUploadDropped ==
  [][Ends =>
        /\ syncLog'.started = syncLog.started
        /\ Len(uploads') = Len(uploads) - 1
        /\ \A k \in 1..Len(syncLog'.pending) : syncLog'.pending[k] # Ended.n
        /\ UNCHANGED <<prompts, localBlob, notice, isSyncing>>
        /\ remote' = IF Ended.ok THEN syncLog.started[Ended.n] ELSE remote]_vars

\* the upload of the first mutation has failed, that of the second has
\* arrived: the row holds the collection as of the second mutation, which is
\* what localStorage holds
C14_Witness ==
  /\ syncLog.settled = <<[n |-> 1, ok |-> FALSE], [n |-> 2, ok |-> TRUE]>>
  /\ uploads = <<>>
  /\ notice = Null
  /\ remote = syncLog.started[2]
  /\ remote.data = localBlob.data
  /\ syncLog.started[1] # syncLog.started[2]

\* what a step of the given kind makes of the collection, in terms of the
\* collection before it and of what the step was handed; nothing in it
\* depends on whether a remote is configured
LocalEffect ==
  /\ lastOp'.op \in SaveOps =>
        prompts' = handleSavePrompt(prompts, selectedPrompt, lastOp'.carried, now).prompts
  /\ lastOp'.op = "delete" => prompts' = FilterOut(prompts, lastOp'.id)
  /\ lastOp'.op = "duplicate" =>
        /\ Tail(prompts') = prompts
        /\ Head(prompts')["id"] = lastOp'.id /\ Head(prompts')["history"] = <<>>
  /\ lastOp'.op = "reorder" =>
        /\ Len(prompts') = Len(prompts)
        /\ \A i \in 1..Len(prompts) : Omit(prompts'[i], "order") = Omit(prompts[i], "order")
  /\ lastOp'.op = "imported" =>
        prompts' = SelectSeq(lastOp'.carried.file.data, ValidForReplace)
  /\ lastOp'.op \in MutationOps \cup {"imported"} => localBlob' = BlobOf(prompts')
  /\ lastOp'.op \notin MutationOps \cup {"imported", "mount", "downloaded"} =>
        UNCHANGED <<prompts, localBlob>>

\* C15: without a remote configured no step, startup and import included,
\* sends a download or an upload or changes the row, whether or not a row
\* exists; and in both modes every mutation makes the same thing of the
\* collection and writes it to localStorage.
C15_LocalOnlyMode ==
  [][/\ ~isCloudEnabled =>
           /\ UNCHANGED <<remote, download, uploads, syncLog, isSyncing>>
           /\ download.st = "idle" /\ uploads = <<>> /\ ~isSyncing
           /\ lastOp'.op = "mount" =>
                 /\ prompts' = getStoredPrompts(localBlob, now)
                 /\ localBlob' = getStoredPromptsBlob(localBlob, now)
     /\ LocalEffect]_vars

\* without a remote configured, with a row on the server: two mutations have
\* been applied and written to localStorage, the row is as it was
C15_Witness ==
  /\ ~isCloudEnabled
  /\ remote # Null /\ remote.data = RemoteCollection
  /\ lastOp.op \in MutationOps \cup {"imported"}
  /\ steps = 0
  /\ prompts # PriorCollection
  /\ localBlob = BlobOf(prompts)
  /\ uploads = <<>> /\ download.st = "idle"

\* the ids that occur in a file
FileIds(entries) == {entries[i]["id"] : i \in {j \in 1..Len(entries) : Has(entries[j], "id")}}

\* C16: without a remote configured, every record that was in the collection
\* before an import and whose id does not occur in the file is still in the
\* collection after it.
C16_LocalImportMerges ==
  (~isCloudEnabled /\ lastOp.op = "imported") =>
     \A i \in 1..Len(lastOp.before) :
        lastOp.before[i]["id"] \notin FileIds(lastOp.carried.file.data) =>
           \E j \in 1..Len(prompts) : prompts[j] = lastOp.before[i]

\* the ids of the entries the merge keeps, and the entry it keeps under an id
MergedIds(entries) ==
  {entries[i]["id"] : i \in {j \in 1..Len(entries) : ValidForMerge(entries[j])}}

LastMerged(entries, id) ==
  LET at == {j \in 1..Len(entries) : ValidForMerge(entries[j]) /\ entries[j]["id"] = id}
  IN entries[CHOOSE j \in at : \A k \in at : k <= j]

\* one record per id, sorted by updatedAt descending
SortedById(ps) ==
  /\ Len(ps) = Cardinality(Ids(ps))
  /\ \A i, j \in 1..Len(ps) : i < j => ps[i]["updatedAt"] >= ps[j]["updatedAt"]

MergeImportEnded == Legacy /\ lastOp.op = "imported"

\* C17 as stated: after a merge import the collection holds, under the id of
\* every kept entry, the entry as it is in the file; every record that was in
\* the collection just before the import was applied and whose id is not
\* among the kept ones, unchanged; nothing else; sorted by updatedAt descending.
C17_MergeByIdExact ==
  MergeImportEnded =>
     LET entries == lastOp.carried.file.data
         kept == MergedIds(entries)
     IN /\ Ids(prompts) = Ids(lastOp.before) \cup kept
        /\ SortedById(prompts)
        /\ \A i \in 1..Len(prompts) :
              prompts[i] = IF prompts[i]["id"] \in kept
                           THEN LastMerged(entries, prompts[i]["id"])
                           ELSE lastOp.before[FindIndex(lastOp.before, prompts[i]["id"])]

\* C17 (amended): after a merge import the collection holds, under the id of
\* every kept entry, that entry with createdAt, history and isFavorite filled
\* in where the file lacks them; every record of the collection the handler
\* was invoked with whose id is not among the kept ones, as it was then;
\* nothing else; sorted by updatedAt descending; and localStorage holds the same.
C17_MergeById ==
  MergeImportEnded =>
     LET entries == lastOp.carried.file.data
         current == lastOp.carried.closure
         kept == MergedIds(entries)
     IN /\ Ids(prompts) = Ids(current) \cup kept
        /\ SortedById(prompts)
        /\ \A i \in 1..Len(prompts) :
              prompts[i] = IF prompts[i]["id"] \in kept
                           THEN Backfilled(LastMerged(entries, prompts[i]["id"]), now)
                           ELSE current[FindIndex(current, prompts[i]["id"])]
        /\ localBlob = BlobOf(prompts)

\* the backup was merged into a collection that held record 1 (replaced by
\* the file's), record 2 (kept) and no record 17 (added, fields filled in)
C17_Witness ==
  /\ MergeImportEnded
  /\ lastOp.carried.file = FileArray(BackupEntries)
  /\ {1, 2} \subseteq Ids(lastOp.before) /\ 17 \notin Ids(lastOp.before)
  /\ prompts[FindIndex(prompts, 1)] = BackupEntries[1]
  /\ lastOp.before[FindIndex(lastOp.before, 1)] # BackupEntries[1]
  /\ prompts[FindIndex(prompts, 2)] = lastOp.before[FindIndex(lastOp.before, 2)]
  /\ FindIndex(prompts, 17) > 0
  /\ Has(prompts[FindIndex(prompts, 17)], "history")

\* C18: an import keeps exactly the entries that have an id and a non-empty
\* template, reports their number, and in the replace mode of App.tsx the
\* collection is exactly those entries.
C18_KeptAndCounted ==
  lastOp.op = "imported" =>
     LET entries == lastOp.carried.file.data
         keptEntries == SelectSeq(entries, ValidForReplace)
     IN /\ notice = ImportedNotice(Len(keptEntries))
        /\ Ids(keptEntries) \subseteq Ids(prompts)
        /\ \A i \in 1..Len(entries) :
              (Has(entries[i], "id") /\ ~ValidForReplace(entries[i])
                 /\ entries[i]["id"] \notin Ids(lastOp.before) \cup Ids(keptEntries))
              => entries[i]["id"] \notin Ids(prompts)
        /\ Cloud => prompts = keptEntries

\* a file that does not parse or does not hold an array is being read
ReadingBadFile ==
  importing # Null /\ importing.stage = "reading" /\ ~IsArrayFile(importing.file)

\* C19: the only thing that happens to an import of a file that does not
\* parse or does not hold an array is its rejection, and the rejection
\* changes neither the collection nor localStorage nor the remote row,
\* starts no upload, and shows the error.
C19_NonArrayRejected ==
  [][(ReadingBadFile /\ importing' # importing) =>
        /\ importing' = Null
        /\ lastOp'.op = "importRejected"
        /\ UNCHANGED <<prompts, localBlob, remote, uploads, syncLog, isSyncing, drafts>>
        /\ notice' = IF importing.file.kind = "garbage" THEN ImportFailedNotice
                     ELSE FormatErrorNotice]_vars

\* with a remote configured and a row on it, the import of a JSON object
\* was rejected; the collection is the one that was mounted
C19_Witness ==
  /\ lastOp.op = "importRejected"
  /\ lastOp.carried.file = FileObject
  /\ notice = FormatErrorNotice
  /\ Cloud /\ isCloudEnabled /\ remote # Null
  /\ prompts # <<>> /\ prompts = lastOp.before /\ localBlob = BlobOf(prompts)
  /\ uploads = <<>>

\* the records of a collection, as a set
Records(ps) == {ps[i] : i \in 1..Len(ps)}

\* C20: when a file written by the export is merged into a collection that
\* shares no id with it, the result holds the records of the file and the
\* records of that collection as they were, and nothing else.
C20_RoundTrip ==
  (/\ MergeImportEnded
   /\ lastOp.carried.file = exported
   /\ lastOp.before = lastOp.carried.closure
   /\ Ids(lastOp.before) \cap FileIds(exported.data) = {}) =>
     Records(prompts) = Records(lastOp.before) \cup Records(exported.data)

\* no two records of a collection have the same id
UniqueIds(ps) == \A i, j \in 1..Len(ps) : ps[i]["id"] = ps[j]["id"] => i = j

\* C21: no step leaves two records with one id in the collection; create and
\* duplicate hand out an id no record holds; save, duplicate and reorder
\* keep the id of every stored record at its place.
C21_IdUniqueness ==
  [][/\ UniqueIds(prompts')
     /\ lastOp'.op \in {"create", "duplicate"} => lastOp'.id \notin Ids(prompts)
     /\ lastOp'.op \in SaveOps \cup {"reorder"} =>
           (Ids(prompts) \subseteq Ids(prompts')
            /\ (Len(prompts') = Len(prompts) =>
                  \A i \in 1..Len(prompts) : prompts'[i]["id"] = prompts[i]["id"]))
     /\ lastOp'.op = "duplicate" =>
           \A i \in 1..Len(prompts) : prompts'[i + 1]["id"] = prompts[i]["id"]]_vars

\* the steps that put a new collection in place
ReplacingOps == MutationOps \cup {"imported", "downloaded"}

\* C22: once mounted, the collection in localStorage is the collection in
\* memory; neither changes but in a mutation, the end of an import or the
\* startup overwrite, and that one step leaves localStorage holding the new
\* collection.
C22_StoreFollowsMemory ==
  [][/\ phase' = "run" => localBlob' = BlobOf(prompts')
     /\ (phase = "run" /\ (prompts' # prompts \/ localBlob' # localBlob)) =>
           (lastOp'.op \in ReplacingOps /\ localBlob' = BlobOf(prompts'))
     /\ lastOp'.op \in MutationOps => localBlob' = BlobOf(prompts')]_vars

\* with a remote: an import has replaced the collection, a mutation has
\* followed, and localStorage holds the collection after the mutation
C22_Witness ==
  /\ lastOp.op \in MutationOps
  /\ notice # Null /\ notice.kind = "imported"
  /\ isCloudEnabled
  /\ Len(prompts) > 0
  /\ Ids(prompts) \cap {16, 17} # {}
  /\ localBlob = BlobOf(prompts)
  /\ localBlob # BlobOf(PriorCollection)

\* C23: a reorder gives each record of the subset it was handed its index in
\* that subset, counted from 0, as order and changes nothing else on it;
\* every other record and the position of every record stay as they were;
\* the result is written to localStorage and, with a remote, uploaded.
C23_ManualReorder ==
  [][lastOp'.op = "reorder" =>
        LET reorderedSubset == lastOp'.carried
            n == Len(reorderedSubset)
        IN /\ Len(prompts') = Len(prompts)
           /\ \A k \in 1..n :
                 \E i \in 1..Len(prompts) :
                    /\ prompts[i]["id"] = reorderedSubset[k]["id"]
                    /\ prompts'[i]["order"] = k - 1
           /\ \A i \in 1..Len(prompts) :
                 IF prompts[i]["id"] \in Ids(reorderedSubset)
                 THEN /\ prompts'[i]["order"] \in 0..(n - 1)
                      /\ Omit(prompts'[i], "order") = Omit(prompts[i], "order")
                 ELSE prompts'[i] = prompts[i]
           /\ localBlob' = BlobOf(prompts')
           /\ uploads' = IF isCloudEnabled THEN Append(uploads, [data |-> Json(prompts')])
                         ELSE uploads]_vars

\* the second of two favourites was dragged in front of the first; a third
\* record, not a favourite, is in the collection and has no order
C23_Witness ==
  /\ lastOp.op = "reorder"
  /\ Len(lastOp.carried) = 2 /\ Len(prompts) = 3
  /\ \E i, j, k \in 1..3 :
        /\ prompts[i]["id"] = lastOp.carried[1]["id"] /\ prompts[i]["order"] = 0
        /\ prompts[j]["id"] = lastOp.carried[2]["id"] /\ prompts[j]["order"] = 1
        /\ lastOp.before[i]["updatedAt"] <= lastOp.before[j]["updatedAt"] /\ i > j
        /\ k \notin {i, j} /\ OrderKey(prompts[k]) = MAX_SAFE_INTEGER
        /\ prompts[k] = lastOp.before[k]
  /\ localBlob = BlobOf(prompts)

\* C24: a duplicate of P puts one record in front of the collection and
\* leaves the rest, P included, as it was; the record has an id no record
\* held, an empty history, isFavorite false, lastUsedAt and order undefined
\* (absent from what is stored), createdAt and updatedAt the time of the
\* step, and the template of P.
C24_DuplicateNewLineage ==
  [][lastOp'.op = "duplicate" =>
        LET P == lastOp'.carried
            newPrompt == Head(prompts')
        IN /\ Tail(prompts') = prompts
           /\ \E i \in 1..Len(prompts) : prompts[i] = P
           /\ newPrompt["id"] = lastOp'.id /\ newPrompt["id"] \notin Ids(prompts)
           /\ newPrompt["history"] = <<>>
           /\ newPrompt["isFavorite"] = FALSE
           /\ HoldsUndefined(newPrompt, "lastUsedAt") /\ HoldsUndefined(newPrompt, "order")
           /\ ~Has(Head(localBlob'.data), "lastUsedAt") /\ ~Has(Head(localBlob'.data), "order")
           /\ newPrompt["createdAt"] = now /\ newPrompt["updatedAt"] = now
           /\ newPrompt["template"] = P["template"]
           /\ Tail(localBlob'.data) = Json(prompts)]_vars

\* the record duplicated was a favourite with a history, a lastUsedAt and an
\* order, all older than the duplication
C24_Witness ==
  /\ lastOp.op = "duplicate"
  /\ IsFavorite(lastOp.carried)
  /\ Len(lastOp.carried["history"]) > 0
  /\ Has(lastOp.carried, "lastUsedAt") /\ ~HoldsUndefined(lastOp.carried, "lastUsedAt")
  /\ Has(lastOp.carried, "order") /\ ~HoldsUndefined(lastOp.carried, "order")
  /\ lastOp.carried["updatedAt"] < now
  /\ Head(prompts)["history"] = <<>> /\ Head(prompts)["updatedAt"] = now
  /\ Tail(prompts) = lastOp.before

\* the fields the migration may fill in
MigratedFields == {"createdAt", "history", "isFavorite"}

\* entry q is entry p with the three fields filled in at time t
FilledIn(p, q, t) ==
  /\ DOMAIN q = DOMAIN p \cup MigratedFields
  /\ \A k \in DOMAIN p \ MigratedFields : q[k] = p[k]
  /\ q["createdAt"] = IF Has(p, "createdAt") /\ p["createdAt"] # 0 THEN p["createdAt"]
                      ELSE IF Has(p, "updatedAt") /\ p["updatedAt"] # 0 THEN p["updatedAt"]
                      ELSE t
  /\ q["history"] = IF Has(p, "history") THEN p["history"] ELSE <<>>
  /\ q["isFavorite"] = IF Has(p, "isFavorite") THEN p["isFavorite"] ELSE FALSE

\* a load of a stored array of objects
LoadsArray == lastOp'.op = "mount" /\ localBlob.kind = "json"

\* C25: a load of a stored array returns its entries with createdAt, history
\* and isFavorite filled in where they are missing and nothing else changed;
\* it writes the result back if and only if an entry changed; and what it
\* returns and leaves in localStorage is changed by no later load.
C25_MigrationIdempotent ==
  [][LoadsArray =>
        /\ Len(prompts') = Len(localBlob.data)
        /\ \A i \in 1..Len(prompts') : FilledIn(localBlob.data[i], prompts'[i], now)
        /\ localBlob' = IF prompts' # localBlob.data THEN BlobOf(prompts') ELSE localBlob
        /\ localBlob'.data = prompts'
        /\ \A t \in {now, now + TickStep, now + 2 * TickStep} :
              /\ getStoredPrompts(localBlob', t) = prompts'
              /\ getStoredPromptsBlob(localBlob', t) = localBlob']_vars

\* the collection of the earlier version was loaded and written back, the
\* page was reloaded later, and the second load returned what the first had
\* written, createdAt of the first load included
C25_Witness ==
  /\ lastOp.op = "mount"
  /\ steps < LoadSteps /\ loadedAt > BootTime
  /\ prompts = Migrated(StoredBeforeMigration, BootTime)
  /\ prompts # StoredBeforeMigration
  /\ prompts[1]["createdAt"] = 300 /\ prompts[2]["createdAt"] = BootTime
  /\ localBlob = BlobOf(prompts)

\* what is stored parses to a list of records: an array of objects that
\* have at least an id and a template
ListOfRecords(blob) ==
  /\ blob.kind = "json"
  /\ \A i \in 1..Len(blob.data) : Has(blob.data[i], "id") /\ Has(blob.data[i], "template")

\* C26: a load of a value that does not parse, or does not parse to a list of
\* records, returns the seed collection; a load with nothing stored returns
\* the seed collection and stores it.
C26_CorruptStoreYieldsSeed ==
  [][lastOp'.op = "mount" =>
        /\ localBlob.kind = "absent" =>
              (prompts' = INITIAL_PROMPTS(loadedAt) /\ localBlob' = BlobOf(prompts'))
        /\ (localBlob.kind # "absent" /\ ~ListOfRecords(localBlob)) =>
              prompts' = INITIAL_PROMPTS(loadedAt)]_vars

\* the field a favourite toggle or a mark-as-used is about
ActedField(name) == IF name = "favorite" THEN "isFavorite" ELSE "lastUsedAt"

\* C27 as stated: a favourite toggle or a mark-as-used of a stored record prepends the
\* stored record, without its history, to the record's history (20 entries
\* at most), sets updatedAt to the time of the action, sets the field the
\* action is about, and leaves every other field of the stored record and
\* every other record as they were.
C27_ToggleAndUseAreSaves ==
  [][(lastOp'.op \in {"favorite", "used"} /\ lastOp'.existed) =>
        LET stored == lastOp'.before
            index == FindIndex(prompts, lastOp'.id)
            saved == prompts'[index]
            storedHistory == IF Has(stored, "history") THEN stored["history"] ELSE <<>>
        IN /\ Len(prompts') = Len(prompts)
           /\ \A i \in 1..Len(prompts) : i # index => prompts'[i] = prompts[i]
           /\ saved["history"] = Slice(<<Omit(stored, "history")>> \o storedHistory, AppHistoryCap)
           /\ saved["updatedAt"] = now
           /\ IF lastOp'.op = "favorite" THEN saved["isFavorite"] = ~IsFavorite(stored)
              ELSE saved["lastUsedAt"] = now
           /\ \A k \in DOMAIN stored \ {"history", "updatedAt", ActedField(lastOp'.op)} :
                 Has(saved, k) /\ saved[k] = stored[k]]_vars

\* the object handleToggleFavorite and handleMarkAsUsed start from: the card's
\* record in the list, selectedPrompt in the editor
ActedOn(stored) == IF view = "LIST" THEN stored ELSE selectedPrompt

\* C27 (amended): a favourite toggle or a mark-as-used of a stored record
\* saves the object it started from (the stored record when invoked from the
\* list, selectedPrompt when invoked from the editor) with the field the
\* action is about set, an empty title replaced by the default one, the
\* stored record without its history prepended to the stored history (20
\* entries at most) and updatedAt the time of the action; all other records
\* stay as they were; from the list, on a record with a title, no other field
\* changes; and k such actions on a record with an empty history leave
\* min(k, 20) history entries.
ToggleSavesItsObject ==
  (lastOp'.op \in {"favorite", "used"} /\ lastOp'.existed) =>
     LET stored == lastOp'.before
         index == FindIndex(prompts, lastOp'.id)
         saved == prompts'[index]
         from == ActedOn(stored)
         handed == IF lastOp'.op = "favorite"
                   THEN Spread(from, [isFavorite |-> ~IsFavorite(from)])
                   ELSE Spread(from, [lastUsedAt |-> now])
         storedHistory == IF Has(stored, "history") THEN stored["history"] ELSE <<>>
     IN /\ Len(prompts') = Len(prompts)
        /\ \A i \in 1..Len(prompts) : i # index => prompts'[i] = prompts[i]
        /\ saved["history"] = Slice(<<Omit(stored, "history")>> \o storedHistory, AppHistoryCap)
        /\ Len(saved["history"]) = Min(Len(storedHistory) + 1, AppHistoryCap)
        /\ saved["updatedAt"] = now
        /\ Omit(Omit(saved, "history"), "updatedAt")
              = Omit(Omit(WithDefaultTitle(handed), "history"), "updatedAt")
        /\ (view = "LIST" /\ Trim(stored["title"]) # "") =>
              \A k \in DOMAIN stored \ {"history", "updatedAt", ActedField(lastOp'.op)} :
                 Has(saved, k) /\ saved[k] = stored[k]

C27_ToggleAndUseSaveTheirObject ==
  [][/\ ToggleSavesItsObject
     /\ lastOp'.op \in {"favorite", "used"} =>
           Len(prompts'[1]["history"]) = Min(ToggleSteps - steps', AppHistoryCap)]_vars

\* the star and the copy button of a record stored with an empty history
\* have been used 21 times: its history holds 20 entries, the newest first
C27_Witness ==
  /\ lastOp.op \in {"favorite", "used"}
  /\ ToggleSteps - steps = AppHistoryCap + 1
  /\ Len(prompts[1]["history"]) = AppHistoryCap
  /\ prompts[1]["history"][1] = Omit(lastOp.before, "history")
  /\ prompts[1]["updatedAt"] = now /\ now > BootTime
  /\ prompts[1]["title"] = "t"

\* the star or the copy button of the editor is used on a stored record
\* while the editor holds something else than the record it was opened on
ActsOverUnsavedEdits ==
  /\ lastOp'.op \in {"favorite", "used"} /\ lastOp'.existed
  /\ view = "EDITOR" /\ editor.mounted
  /\ editor.prompt # selectedPrompt

\* C28: when the star or the copy button of the editor is used on a stored
\* record while the editor holds unsaved edits, the record is saved from
\* selectedPrompt, so that it takes nothing from the editor; its updatedAt is
\* the time of the action, which no draft written so far exceeds; and, that
\* time differing from the updatedAt the key was built from, the editor is
\* mounted anew on the saved record, with no timer pending, and starts from
\* the record and not from the draft.
C28_EditorActionsDropEdits ==
  [][ActsOverUnsavedEdits =>
        LET saved == Lookup(prompts', lastOp'.id)
            handed == IF lastOp'.op = "favorite"
                      THEN Spread(selectedPrompt, [isFavorite |-> ~IsFavorite(selectedPrompt)])
                      ELSE Spread(selectedPrompt, [lastUsedAt |-> now])
        IN /\ Omit(Omit(saved, "history"), "updatedAt")
                 = Omit(Omit(WithDefaultTitle(handed), "history"), "updatedAt")
           /\ saved["updatedAt"] = now
           /\ selectedPrompt' = saved
           /\ drafts' = drafts
           /\ lastOp'.id \in DOMAIN drafts => drafts[lastOp'.id]["updatedAt"] <= saved["updatedAt"]
           /\ now # selectedPrompt["updatedAt"] =>
                 /\ editor'.mounted
                 /\ editor'.mountedWith.initialData = saved
                 /\ editor'.prompt = saved
                 /\ editor'.saveStatus = "SAVED"
                 /\ editor'.timer = Null
                 /\ editor'.runs = 0]_vars

\* record 2 was opened with a cached draft newer than it, so the editor
\* started from the draft; the star was used; the stored record has the
\* fields it had, the draft is still cached, and the editor now shows the
\* stored record
C28_Witness ==
  /\ lastOp.op = "favorite" /\ lastOp.id = 2
  /\ view = "EDITOR" /\ editor.mounted
  /\ 2 \in DOMAIN drafts /\ drafts[2]["title"] = "d2"
  /\ lastOp.before["updatedAt"] < drafts[2]["updatedAt"]
  /\ Lookup(prompts, 2)["title"] = "two"
  /\ Lookup(prompts, 2)["updatedAt"] > drafts[2]["updatedAt"]
  /\ editor.prompt = Lookup(prompts, 2)
  /\ editor.mountedWith.draft = drafts[2]
  /\ editor.saveStatus = "SAVED"

\* C29: a save never removes a record. A save of an id that is not in the
\* collection puts the object it was handed at the front, with the history
\* and the updatedAt it carried (and the default title for a blank one), in
\* front of the collection as it was; a save of an id that is in the
\* collection keeps the length, the id at every position, and every record
\* but the one it replaces.
C29_SaveNeverRemoves ==
  [][lastOp'.op \in SaveOps =>
        LET index == FindIndex(prompts, lastOp'.id)
        IN /\ lastOp'.existed <=> index > 0
           /\ index = 0 =>
                 /\ prompts' = <<WithDefaultTitle(lastOp'.carried)>> \o prompts
                 /\ prompts'[1]["id"] = lastOp'.id
                 /\ \A k \in {"history", "updatedAt"} :
                       Has(lastOp'.carried, k) <=> Has(prompts'[1], k)
                 /\ \A k \in {"history", "updatedAt"} \cap DOMAIN lastOp'.carried :
                       prompts'[1][k] = lastOp'.carried[k]
           /\ index > 0 =>
                 /\ Len(prompts') = Len(prompts)
                 /\ \A i \in 1..Len(prompts) : prompts'[i]["id"] = prompts[i]["id"]
                 /\ \A i \in 1..Len(prompts) : i # index => prompts'[i] = prompts[i]]_vars

\* the record open in the editor was in the store when the page loaded and
\* was no longer in the collection when it was saved, the collection having
\* been replaced meanwhile; it is back at the front as the editor had it,
\* with the updatedAt of before the save, and the records that replaced it
\* follow
C29_Witness ==
  /\ lastOp.op = "save" /\ ~lastOp.existed
  /\ lastOp.id \in ghost.retired
  /\ Len(prompts) > 1
  /\ prompts[1] = WithDefaultTitle(lastOp.carried)
  /\ prompts[1]["updatedAt"] < now
  /\ selectedPrompt = prompts[1]

\* App.tsx with a remote endpoint configured, every request reaching the
\* server, and in the order the requests were started: the upload of an
\* import is started when no other is in flight, so that every upload in
\* flight beside it was started after it and arrives after it
UploadingImport == importing # Null /\ importing.stage = "uploading"

InitSync == InitWith({"cloud"}, {TRUE}, SyncSteps, InitialBlobs, InitialRemotes)
NextSync ==
  \/ AppMount
  \/ CloudGesture
  \/ handleImport(FileArray(BackupEntries), TRUE)
  \/ (uploads = <<>> /\ ImportFileRead)
  \/ ImportUploadSettled(TRUE)
  \/ \E ok \in BOOLEAN : DownloadAnswer(ok)
  \/ DownloadResolve
  \/ (~UploadingImport /\ UploadArrive(1))
SpecSync == InitSync /\ [][NextSync]_vars

\* every upload that has ended reached the server, and they ended in the
\* order they were started
InOrder ==
  /\ \A k \in 1..Len(syncLog.settled) : syncLog.settled[k].ok
  /\ \A k \in 1..Len(syncLog.settled) : syncLog.settled[k].n = k

\* a remote is configured, a mutation has been applied, and neither an
\* upload nor the download is in flight
Quiescent ==
  /\ isCloudEnabled /\ phase = "run"
  /\ syncLog.started # <<>>
  /\ InOrder
  /\ uploads = <<>> /\ syncLog.pending = <<>>
  /\ download.st = "done"
  /\ ~UploadingImport

\* C30 as stated: with a remote configured, every upload reaching the server
\* and in the order the uploads were started, whenever a mutation has been
\* applied and neither an upload nor the download is in flight, the data of
\* the remote row is the local collection.
C30_ConvergenceAtQuiescence ==
  Quiescent => (remote # Null /\ remote.data = Json(prompts))

\* C30: under the same conditions, and when neither the startup download nor
\* an import has replaced the local collection since the last mutation was
\* applied, the remote row is what that mutation uploaded and its data is the
\* local collection.
C30_ConvergenceUnlessReplaced ==
  (Quiescent /\ ~syncLog.replaced) =>
     /\ remote # Null
     /\ remote = syncLog.started[Len(syncLog.started)]
     /\ remote.data = Json(prompts)

\* the startup download has resolved, a mutation has been applied after it
\* and its upload has arrived: the row holds the local collection
C30_Witness ==
  /\ Quiescent
  /\ lastOp.op = "uploaded"
  /\ ~syncLog.replaced
  /\ Len(syncLog.started) = 2
  /\ remote.data = Json(prompts)
  /\ localBlob.data = remote.data
  /\ remote.data # RemoteCollection

====
